---- MODULE Spec2Model ----
(***************************************************************************)
(* Verification model of the ToDo application (zeros79ya/ToDo):            *)
(*   - the business-trip clipboard parser (classifyPurpose, normalizeDate, *)
(*     normalizeDateRange, parseTripText),                                 *)
(*   - the storage layer (localStorage + IndexedDB key/value store, the    *)
(*     one-time migration, export/import, category CRUD),                  *)
(*   - the DataProvider in-memory mirror.                                  *)
(*                                                                         *)
(* Strings are sequences of characters.  A character is a one-letter      *)
(* string; a Hangul syllable is written as its romanisation, e.g. the two  *)
(* syllables of the vacation keyword are "yeon","cha".                     *)
(***************************************************************************)
EXTENDS Integers, Sequences, FiniteSets, TLC

VARIABLES
    \* classifyPurpose
    purpose, category,
    \* normalizeDate / normalizeDateRange
    dateOp, dateA, dateB, baseYear, dateOut,
    \* parseTripText
    text, members, thisYear, parsed,
    \* storage: localStorage, IndexedDB kv store, DataProvider state, bookkeeping
    ls, idb, mem, last, snap,
    \* page.tsx: the closure of the keydown listener
    keydown,
    \* TripHomonymResolverDialog: props, state and the onResolve calls
    dialog

classifyVars == <<purpose, category>>
dateVars == <<dateOp, dateA, dateB, baseYear, dateOut>>
parseVars == <<text, members, thisYear, parsed>>
storeVars == <<ls, idb, mem, last, snap, keydown, dialog>>
vars == <<purpose, category, dateOp, dateA, dateB, baseYear, dateOut,
          text, members, thisYear, parsed, ls, idb, mem, last, snap, keydown,
          dialog>>

(***************************************************************************)
(* JavaScript string primitives                                            *)
(***************************************************************************)
Undefined == "<undefined>"
NaN == -1
None == "<none>"

Whitespace == {" ", "\t", "\r", "\n"}
DigitChars == <<"0", "1", "2", "3", "4", "5", "6", "7", "8", "9">>
IsDigit(c) == \E d \in 1..10 : DigitChars[d] = c
DigitVal(c) == (CHOOSE d \in 1..10 : DigitChars[d] = c) - 1
AllDigits(s) == \A k \in 1..Len(s) : IsDigit(s[k])

\* String.prototype.trim
Trim(s) ==
    LET solid == {k \in 1..Len(s) : s[k] \notin Whitespace}
    IN  IF solid = {} THEN <<>>
        ELSE SubSeq(s, CHOOSE k \in solid : \A j \in solid : k <= j,
                       CHOOSE k \in solid : \A j \in solid : k >= j)

\* String.prototype.trimStart
TrimLeft(s) ==
    LET solid == {k \in 1..Len(s) : s[k] \notin Whitespace}
    IN  IF solid = {} THEN <<>>
        ELSE SubSeq(s, CHOOSE k \in solid : \A j \in solid : k <= j, Len(s))

\* The elements of seq at the indices in S, in order
PickInOrder(seq, S) ==
    [j \in 1..Cardinality(S) |->
        seq[CHOOSE k \in S : Cardinality({x \in S : x < k}) = j - 1]]

\* String.prototype.includes / RegExp.test of a literal
Includes(s, sub) ==
    \E k \in 1..(Len(s) - Len(sub) + 1) : SubSeq(s, k, k + Len(sub) - 1) = sub

\* String.prototype.split(sep) for a one-character separator: the pieces
\* between the separators, in order
Split(s, sep) ==
    LET seps == {k \in 1..Len(s) : s[k] = sep}
        begins == {1} \cup {k + 1 : k \in seps}
        EndOf(a) == IF \E k \in seps : k >= a
                    THEN (CHOOSE k \in seps : k >= a /\ \A j \in seps : j >= a => k <= j) - 1
                    ELSE Len(s)
    IN  [j \in 1..Cardinality(begins) |->
            LET a == CHOOSE b \in begins : Cardinality({x \in begins : x < b}) = j - 1
            IN  SubSeq(s, a, EndOf(a))]

\* Value of a string of digits
RECURSIVE DigitsValue(_)
DigitsValue(s) ==
    IF s = <<>> THEN 0
    ELSE 10 * DigitsValue(SubSeq(s, 1, Len(s) - 1)) + DigitVal(s[Len(s)])

\* The longest prefix of digits of s
RECURSIVE LeadingDigits(_)
LeadingDigits(s) ==
    IF s # <<>> /\ IsDigit(Head(s)) THEN <<Head(s)>> \o LeadingDigits(Tail(s))
    ELSE <<>>

\* parseInt(s, 10): leading whitespace skipped, leading digits read, NaN if none
ParseInt(s) ==
    LET d == LeadingDigits(TrimLeft(s))
    IN  IF d = <<>> THEN NaN ELSE DigitsValue(d)

\* String(n) for a natural number n (and for NaN)
RECURSIVE NatToStr(_)
NatToStr(n) ==
    IF n = NaN THEN <<"N", "a", "N">>
    ELSE IF n < 10 THEN <<DigitChars[n + 1]>>
    ELSE NatToStr(n \div 10) \o <<DigitChars[(n % 10) + 1]>>

\* s.padStart(2, '0')
PadStart2(s) ==
    IF Len(s) >= 2 THEN s
    ELSE IF Len(s) = 1 THEN <<"0">> \o s
    ELSE <<"0", "0">>

(***************************************************************************)
(* classifyPurpose                                                         *)
(***************************************************************************)
KwYeoncha == <<"yeon", "cha">>
KwHyuga == <<"hyu", "ga">>
KwGyoyuk == <<"gyo", "yuk">>
KwHyeopryeoksa == <<"hyeop", "ryeok", "sa">>
KwGeomjin == <<"geom", "jin">>

IsVacationPurpose(p) == Includes(p, KwYeoncha) \/ Includes(p, KwHyuga)
IsEducationPurpose(p) == Includes(p, KwGyoyuk)
IsOthersPurpose(p) == Includes(p, KwHyeopryeoksa) \/ Includes(p, KwGeomjin)

\* The education keyword is looked for before the vacation keywords
classifyPurposeEducationFirst(purposeStr) ==
    LET p == Trim(purposeStr)
    IN  IF IsEducationPurpose(p) THEN "education"
        ELSE IF IsVacationPurpose(p) THEN "vacation"
        ELSE IF IsOthersPurpose(p) THEN "others"
        ELSE "trip"

classifyPurpose(purposeStr) ==
    LET p == Trim(purposeStr)
    IN  IF IsVacationPurpose(p) THEN "vacation"
        ELSE IF IsEducationPurpose(p) THEN "education"
        ELSE IF IsOthersPurpose(p) THEN "others"
        ELSE "trip"

(***************************************************************************)
(* normalizeDate / normalizeDateRange                                      *)
(***************************************************************************)
\* /^\d{1,2}[-.]\d{1,2}$/.test(s)
MatchesShortDate(s) ==
    \E k \in 2..3 :
        /\ k < Len(s)
        /\ Len(s) - k \in 1..2
        /\ AllDigits(SubSeq(s, 1, k - 1))
        /\ s[k] \in {"-", "."}
        /\ AllDigits(SubSeq(s, k + 1, Len(s)))

\* clean.includes('-') ? clean.split('-') : clean.split('.')
SplitDateParts(clean) ==
    IF Includes(clean, <<"-">>) THEN Split(clean, "-") ELSE Split(clean, ".")

PartOrUndefined(parts, k) == IF k <= Len(parts) THEN parts[k] ELSE <<>>

\* `${year}-${String(m).padStart(2,'0')}-${String(d).padStart(2,'0')}`
FormatYMD(year, m, d) ==
    NatToStr(year) \o <<"-">> \o PadStart2(NatToStr(m)) \o <<"-">> \o PadStart2(NatToStr(d))

normalizeDate(dateStr, year) ==
    LET cleanStr == Trim(dateStr)
    IN  IF MatchesShortDate(cleanStr)
        THEN LET parts == SplitDateParts(cleanStr)
                 m == ParseInt(PartOrUndefined(parts, 1))
                 d == ParseInt(PartOrUndefined(parts, 2))
             IN  FormatYMD(year, m, d)
        ELSE cleanStr

parseMonthDay(s) ==
    LET parts == SplitDateParts(Trim(s))
    IN  [month |-> ParseInt(PartOrUndefined(parts, 1)),
         day |-> ParseInt(PartOrUndefined(parts, 2))]

isShortDate(s) == MatchesShortDate(Trim(s))

\* start.month > end.month (a comparison with NaN is false)
CrossesYearBoundaryGe(start, end) ==
    start.month # NaN /\ end.month # NaN /\ start.month >= end.month

CrossesYearBoundary(start, end) ==
    start.month # NaN /\ end.month # NaN /\ start.month > end.month

normalizeDateRange(startStr, endStr, currentYear) ==
    IF isShortDate(startStr) /\ isShortDate(endStr)
    THEN LET start == parseMonthDay(startStr)
             end == parseMonthDay(endStr)
             startYear == IF CrossesYearBoundary(start, end)
                          THEN currentYear - 1 ELSE currentYear
             endYear == currentYear
         IN  [startDate |-> FormatYMD(startYear, start.month, start.day),
              endDate |-> FormatYMD(endYear, end.month, end.day)]
    ELSE [startDate |-> normalizeDate(startStr, currentYear),
          endDate |-> normalizeDate(endStr, currentYear)]

(***************************************************************************)
(* parseTripText                                                           *)
(*                                                                         *)
(* Sequences are indexed from 1 here and from 0 in the source: the index i *)
(* of the model is the source's i + 1.                                     *)
(***************************************************************************)
\* /^\d{2}-\d{2}/ at position k of s
IsMonthDayAt(s, k) ==
    /\ k >= 1
    /\ k + 4 <= Len(s)
    /\ IsDigit(s[k]) /\ IsDigit(s[k + 1]) /\ s[k + 2] = "-"
    /\ IsDigit(s[k + 3]) /\ IsDigit(s[k + 4])

\* \s*~\s* matches the whole of s
IsTildeGap(s) ==
    \E k \in 1..Len(s) :
        /\ s[k] = "~"
        /\ \A j \in (1..Len(s)) \ {k} : s[j] \in Whitespace

\* line.match(/^(\d{2}-\d{2})(?:\s*~\s*(\d{2}-\d{2}))?$/)
IsDateLine(line) ==
    /\ IsMonthDayAt(line, 1)
    /\ \/ Len(line) = 5
       \/ /\ Len(line) >= 11
          /\ IsMonthDayAt(line, Len(line) - 4)
          /\ IsTildeGap(SubSeq(line, 6, Len(line) - 5))

\* dateMatch[1]
DateMatchStart(line) == SubSeq(line, 1, 5)
\* dateMatch[2] || dateMatch[1]
DateMatchEnd(line) ==
    IF Len(line) = 5 THEN SubSeq(line, 1, 5) ELSE SubSeq(line, Len(line) - 4, Len(line))

\* /(\d{4})-\d{2}-\d{2}/ matches s at position k
IsYearDateAt(s, k) ==
    /\ k + 9 <= Len(s)
    /\ \A j \in k..(k + 3) : IsDigit(s[j])
    /\ s[k + 4] = "-" /\ IsDigit(s[k + 5]) /\ IsDigit(s[k + 6])
    /\ s[k + 7] = "-" /\ IsDigit(s[k + 8]) /\ IsDigit(s[k + 9])

HasYearDate(s) == \E k \in 1..Len(s) : IsYearDateAt(s, k)

\* parseInt(yearMatch[1], 10) of the leftmost match
YearOfLine(s) ==
    LET k == CHOOSE k \in 1..Len(s) :
                 IsYearDateAt(s, k) /\ \A j \in 1..(k - 1) : ~IsYearDateAt(s, j)
    IN  ParseInt(SubSeq(s, k, k + 3))

\* The year of baseDate: the current year, or the explicit year of the first
\* line that holds a full date
BaseYearOf(lines, currentYear) ==
    IF \E i \in 1..Len(lines) : HasYearDate(lines[i])
    THEN LET i == CHOOSE i \in 1..Len(lines) :
                      HasYearDate(lines[i]) /\ \A j \in 1..(i - 1) : ~HasYearDate(lines[j])
         IN  YearOfLine(lines[i])
    ELSE currentYear

\* text.split('\n').map(l => l.trim()).filter(l => l)
MapTrim(ls0) == [k \in 1..Len(ls0) |-> Trim(ls0[k])]

NonEmpty(l) == l # <<>>

LinesOf(txt) == SelectSeq(MapTrim(Split(txt, "\n")), NonEmpty)

\* memberMap.get(name): the members whose trimmed name is name, in roster
\* order (the empty sequence stands for undefined)
CandidatesOf(roster, name) ==
    LET SameName(m) == Trim(m.name) = name
    IN  SelectSeq(roster, SameName)

JongIl == <<"jong", "il">>
BanIl == <<"ban", "il">>

\* !/^\d/.test(name) && name !== jong-il && name !== ban-il
isName(name) ==
    /\ ~(name # <<>> /\ IsDigit(Head(name)))
    /\ name # JongIl
    /\ name # BanIl

\* i + 2 < lines.length
HasTwoLinesAfter(i, n) == i + 2 <= n

\* (the consumed lines not skipped)
AfterBlockNoSkip(i) == i + 1

\* the index scanned after a block that starts at i (i += 2; continue; i++)
AfterBlock(i) == i + 3

\* (the first candidate taken whatever their number)
ResolveKnoxIdFirst(candidates) ==
    IF Len(candidates) >= 1 THEN candidates[1].knoxId ELSE Undefined

\* knoxId of a trip from the candidates of its name
ResolveKnoxId(candidates) ==
    IF Len(candidates) = 1 THEN candidates[1].knoxId ELSE Undefined

NewTrip(id, line, nameLine, purposeLine, roster, year) ==
    LET name == Trim(nameLine)
        purposeStr == Trim(purposeLine)
        range == normalizeDateRange(DateMatchStart(line), DateMatchEnd(line), year)
    IN  [id |-> id,
         knoxId |-> ResolveKnoxId(CandidatesOf(roster, name)),
         name |-> name,
         startDate |-> range.startDate,
         endDate |-> range.endDate,
         location |-> "haeoe",
         purpose |-> purposeStr,
         category |-> classifyPurpose(purposeStr),
         status |-> "planned"]

\* The condition under which the loop emits a trip at line i
IsBlockStart(lines, i) ==
    /\ IsDateLine(lines[i])
    /\ HasTwoLinesAfter(i, Len(lines))
    /\ isName(Trim(lines[i + 1]))

\* The for loop over the lines, from index i: the indices of the date lines
\* at which it emits a trip, in order
RECURSIVE StartsFrom(_, _)
StartsFrom(lines, i) ==
    IF i > Len(lines) THEN <<>>
    ELSE IF IsBlockStart(lines, i)
         THEN <<i>> \o StartsFrom(lines, AfterBlock(i))
         ELSE StartsFrom(lines, i + 1)

\* The for loop over the lines, from index i: the values i takes
RECURSIVE ScannedFrom(_, _)
ScannedFrom(lines, i) ==
    IF i > Len(lines) THEN {}
    ELSE IF IsBlockStart(lines, i)
         THEN {i} \cup ScannedFrom(lines, AfterBlock(i))
         ELSE {i} \cup ScannedFrom(lines, i + 1)

\* trips after the loop: one trip per block, in order; crypto.randomUUID()
\* gives each its own id, here its position
ScannedTrips(lines, roster, year) ==
    LET starts == StartsFrom(lines, 1)
    IN  [k \in 1..Len(starts) |->
            NewTrip(k, lines[starts[k]], lines[starts[k] + 1], lines[starts[k] + 2],
                    roster, year)]

\* unknownNames after the loop: a Set keeps insertion order and no
\* duplicates, so it holds the first occurrence of each name without
\* candidates
UnknownNames(trips, roster) ==
    LET Unknown(k) == CandidatesOf(roster, trips[k].name) = <<>>
        firsts == {k \in 1..Len(trips) :
                      Unknown(k) /\ \A j \in 1..(k - 1) : trips[j].name # trips[k].name}
    IN  [j \in 1..Cardinality(firsts) |-> PickInOrder(trips, firsts)[j].name]

\* (the dates left out of the key)
TripKeyNameOnly(trip) == trip.name

\* `${trip.name}|${trip.startDate}|${trip.endDate}`
TripKey(trip) == trip.name \o <<"|">> \o trip.startDate \o <<"|">> \o trip.endDate

IsAmbiguous(trip, roster) ==
    trip.knoxId = Undefined /\ Len(CandidatesOf(roster, trip.name)) > 1

\* The deduplication loop: a trip is kept when its key is not yet in seen,
\* that is, when no earlier trip has its key
KeptIndices(trips) ==
    {k \in 1..Len(trips) : \A j \in 1..(k - 1) : TripKey(trips[j]) # TripKey(trips[k])}

UniqueTrips(trips) == PickInOrder(trips, KeptIndices(trips))

UniqueAmbiguousTrips(trips, roster) ==
    LET amb == {k \in KeptIndices(trips) : IsAmbiguous(trips[k], roster)}
    IN  [j \in 1..Cardinality(amb) |->
            LET t == PickInOrder(trips, amb)[j]
            IN  [trip |-> t, candidates |-> CandidatesOf(roster, t.name)]]

parseTripText(txt, existingMembers, currentYear) ==
    LET lines == LinesOf(txt)
        trips == ScannedTrips(lines, existingMembers, BaseYearOf(lines, currentYear))
    IN  [trips |-> UniqueTrips(trips),
         unknownNames |-> UnknownNames(trips, existingMembers),
         ambiguousTrips |-> UniqueAmbiguousTrips(trips, existingMembers)]

(***************************************************************************)
(* Stored values                                                           *)
(*                                                                         *)
(* A value held by localStorage or IndexedDB is a record [t, v]: t is the  *)
(* kind of the JavaScript value and v carries it.  localStorage holds      *)
(* strings only: JSON text (kind "json", carrying the value it is the text *)
(* of) or another string (kind "str"); IndexedDB holds any value.          *)
(***************************************************************************)
\* null: localStorage.getItem and idbGet of an absent key
Null == [t |-> "null", v |-> <<>>]
\* a string that is not JSON text, e.g. 'light'
Str(s) == [t |-> "str", v |-> <<s>>]
Num(n) == [t |-> "num", v |-> <<n>>]
\* an array with the given items
Arr(items) == [t |-> "arr", v |-> items]
\* an object with the given fields
Obj(fields) == [t |-> "obj", v |-> <<fields>>]
Items(x) == x.v
Fields(x) == x.v[1]

\* JSON.stringify(x): the string that is the JSON text of x
JsonStringify(x) == [t |-> "json", v |-> <<x>>]
\* JSON.parse(s) succeeds exactly on JSON text
IsJsonText(s) == s.t = "json"
JsonParse(s) == s.v[1]
\* typeof x === 'string'
IsString(x) == x.t \in {"str", "json"}

\* Falsy for every object and array, also the empty ones
TruthyNonEmpty(x) ==
    /\ x.t # "null"
    /\ x # Str("")
    /\ x # Num(0)
    /\ x.t = "arr" => Items(x) # <<>>
    /\ x.t = "obj" => DOMAIN Fields(x) # {}

\* JavaScript truthiness: null, '' and 0 are falsy, every array and object
\* is truthy
Truthy(x) ==
    /\ x.t # "null"
    /\ x # Str("")
    /\ x # Num(0)

(***************************************************************************)
(* Storage keys                                                            *)
(***************************************************************************)
STORAGE_KEY == "local-tasks-data"
IDB_MIGRATION_KEY == "local-tasks-idb-migrated-v1"
QUICK_LINKS_KEY == "local-tasks-quick-links"
THEME_KEY == "local-tasks-theme"
LAYOUT_STATE_KEY == "local-tasks-layout-state"
LAYOUT_PRESETS_KEY == "local-tasks-layout-presets"
NOTES_KEY == "local-tasks-notes"
LABELS_KEY == "local-tasks-labels"
TEAM_MEMBERS_KEY == "local-tasks-team-members"
TRIP_STORAGE_KEY == "business-trips"
TRIP_RECORD_STORAGE_KEY == "trip-records"
NAME_RESOLUTION_KEY == "trip-name-resolution"

UI_STATE_KEYS ==
    {"calendar-settings", "calendar-collapsed-weeks", "search-history",
     "sidebar_calendar_expanded", "sidebar_quicklinks_expanded",
     "sidebar_pinnedmemos_expanded", "team-member-custom-columns",
     "team-member-visible-columns", "tripViewMode", "tripCategoryColors",
     "ganttViewPrefs", "tripRecordColumns", "tripRecordHeaders",
     "local-tasks-current-view", "local-tasks-current-month",
     "local-tasks-selected-date", "local-tasks-selected-category-ids"}

IDB_SYNC_KEYS ==
    {"local-tasks-data", "local-tasks-quick-links", "local-tasks-notes",
     "local-tasks-labels", "local-tasks-theme", "local-tasks-layout",
     "local-tasks-layout-state", "local-tasks-layout-presets",
     "local-tasks-team-members", "local-tasks-business-trips",
     "local-tasks-trip-records", "tripNameResolutions",
     "tripDestinationMappings"}
    \cup UI_STATE_KEYS \cup {IDB_MIGRATION_KEY}

heavyKeys ==
    {"local-tasks-data", "local-tasks-quick-links", "local-tasks-notes",
     "local-tasks-labels", "local-tasks-team-members",
     "local-tasks-business-trips", "local-tasks-trip-records",
     "tripNameResolutions"}

\* Every key the storage layer reads or writes
Keys ==
    IDB_SYNC_KEYS \cup {TRIP_STORAGE_KEY, TRIP_RECORD_STORAGE_KEY, NAME_RESOLUTION_KEY}

shouldSyncKey(key) == key \in IDB_SYNC_KEYS

\* A store without any key
EmptyStore == [k \in Keys |-> Null]

\* localStorage after setStorageItem(key, value)
LsSet(l, key, value) == [l EXCEPT ![key] = value]
\* IndexedDB after setStorageItem(key, value): the string is mirrored for the
\* synchronised keys
IdbMirror(db, key, value) ==
    IF shouldSyncKey(key) THEN [db EXCEPT ![key] = value] ELSE db

(***************************************************************************)
(* initializeIndexedDBStorage                                              *)
(***************************************************************************)
\* The string '2'
MigrationDone == JsonStringify(Num(2))

\* The migration runs on every call
MigratesAlways(l) == TRUE

\* getStorageItem(IDB_MIGRATION_KEY) !== '2'
NeedsMigration(l) == l[IDB_MIGRATION_KEY] # MigrationDone

\* try { idbSet(key, JSON.parse(valueStr)) } catch { idbSet(key, valueStr) }
NativeOf(valueStr) ==
    IF IsJsonText(valueStr) THEN JsonParse(valueStr) ELSE valueStr

\* The keys of the loop whose value is not null
CopiedKeys(l) == {k \in IDB_SYNC_KEYS : l[k] # Null}

\* IndexedDB after the copy loop and the two writes of the flag
MigratedIdb(l, db) ==
    [k \in Keys |->
        IF k = IDB_MIGRATION_KEY THEN MigrationDone
        ELSE IF k \in CopiedKeys(l) THEN NativeOf(l[k])
        ELSE db[k]]

\* localStorage after the flag is set and the heavy keys are removed
MigratedLs(l) ==
    [k \in Keys |->
        IF k = IDB_MIGRATION_KEY THEN MigrationDone
        ELSE IF k \in heavyKeys THEN Null
        ELSE l[k]]

\* idbSet calls of a migration: one per copied key, one by setStorageItem of
\* the flag, one by the explicit idbSet of the flag
MigrationWrites(l) == Cardinality(CopiedKeys(l)) + 2
\* localStorage.removeItem calls of a migration
MigrationRemovals == Cardinality(heavyKeys)

(***************************************************************************)
(* Sorting (Array.prototype.sort is stable)                                *)
(***************************************************************************)
\* seq sorted by a comparator; Before(a, b) is "compare(a, b) < 0"
StableSort(seq, Before(_, _)) ==
    LET n == Len(seq)
        Rank(k) == Cardinality({j \in 1..n :
                        \/ Before(seq[j], seq[k])
                        \/ (~Before(seq[k], seq[j]) /\ j < k)})
    IN  [p \in 1..n |-> seq[CHOOSE k \in 1..n : Rank(k) = p - 1]]

\* a.order - b.order
ByOrder(a, b) == a.order < b.order
\* pinned notes first, then by order
ByPinnedThenOrder(a, b) ==
    IF a.isPinned # b.isPinned THEN a.isPinned ELSE a.order < b.order
\* The collation rank of the names the model uses
LocaleRank == [alpha |-> 1, beta |-> 2, Kim |-> 3, Lee |-> 4]
\* a.name.localeCompare(b.name)
ByName(a, b) == LocaleRank[a.name] < LocaleRank[b.name]

\* Math.max(...items.map(x => x.order), -1)
MaxOrder(items) ==
    IF items = <<>> THEN -1
    ELSE LET k == CHOOSE k \in 1..Len(items) :
                     \A j \in 1..Len(items) : items[j].order <= items[k].order
         IN  IF items[k].order < -1 THEN -1 ELSE items[k].order

(***************************************************************************)
(* Getters                                                                 *)
(***************************************************************************)
\* The data getAppData creates when there is none; id is generateId()
DefaultData(id) ==
    [categories |-> <<[id |-> id, name |-> "naehalil", order |-> 0]>>,
     tasks |-> <<>>]

\* !data in getAppData
NeedsDefault(db) == ~Truthy(db[STORAGE_KEY])
\* Number of ids getAppData generates
IdsOfGetAppData(db) == IF NeedsDefault(db) THEN 1 ELSE 0

\* The value getAppData returns; id is the id it would generate
getAppData(db, id) ==
    IF NeedsDefault(db) THEN DefaultData(id) ELSE Fields(db[STORAGE_KEY])

\* IndexedDB after getAppData: the default data is saved
IdbAfterGetAppData(db, id) ==
    IF NeedsDefault(db) THEN [db EXCEPT ![STORAGE_KEY] = Obj(DefaultData(id))] ELSE db

\* getCategories / getTasks() on the data getAppData returned
getCategories(data) == StableSort(data.categories, ByOrder)
getTasks(data) == StableSort(data.tasks, ByOrder)

getQuickLinks(db) ==
    IF ~Truthy(db[QUICK_LINKS_KEY]) THEN <<>>
    ELSE StableSort(Items(db[QUICK_LINKS_KEY]), ByOrder)

getNotes(db) ==
    IF ~Truthy(db[NOTES_KEY]) THEN <<>>
    ELSE StableSort(Items(db[NOTES_KEY]), ByPinnedThenOrder)

getLabels(db) ==
    IF ~Truthy(db[LABELS_KEY]) THEN <<>>
    ELSE StableSort(Items(db[LABELS_KEY]), ByName)

getTeamMembers(db) ==
    IF ~Truthy(db[TEAM_MEMBERS_KEY]) THEN <<>>
    ELSE StableSort(Items(db[TEAM_MEMBERS_KEY]), ByName)

getBusinessTrips(db) ==
    IF Truthy(db[TRIP_STORAGE_KEY]) THEN Items(db[TRIP_STORAGE_KEY]) ELSE <<>>

getTripRecords(db) ==
    IF Truthy(db[TRIP_RECORD_STORAGE_KEY]) THEN Items(db[TRIP_RECORD_STORAGE_KEY]) ELSE <<>>

\* {} : an object without fields
EmptyObject == [n \in {} |-> ""]

getNameResolutions(l) ==
    IF Truthy(l[NAME_RESOLUTION_KEY]) THEN Fields(JsonParse(l[NAME_RESOLUTION_KEY]))
    ELSE EmptyObject

\* getStorageItem(THEME_KEY) || 'light'
getTheme(l) == IF Truthy(l[THEME_KEY]) THEN l[THEME_KEY] ELSE Str("light")

DEFAULT_LAYOUT_STATE ==
    [layout |-> 1, taskListWidth |-> 400, isSidebarVisible |-> TRUE, showWeekends |-> TRUE]

\* { ...a, ...b }
Spread(a, b) ==
    [f \in (DOMAIN a) \cup (DOMAIN b) |-> IF f \in DOMAIN b THEN b[f] ELSE a[f]]

getLayoutState(l) ==
    LET data == l[LAYOUT_STATE_KEY]
    IN  IF ~Truthy(data) THEN DEFAULT_LAYOUT_STATE
        ELSE IF ~IsJsonText(data) THEN DEFAULT_LAYOUT_STATE
        ELSE IF JsonParse(data).t = "obj"
             THEN Spread(DEFAULT_LAYOUT_STATE, Fields(JsonParse(data)))
             ELSE DEFAULT_LAYOUT_STATE

\* [null, null, null, null, null]
NoPresets == <<Null, Null, Null, Null, Null>>

getAllLayoutPresets(l) ==
    LET data == l[LAYOUT_PRESETS_KEY]
    IN  IF ~Truthy(data) THEN NoPresets
        ELSE IF ~IsJsonText(data) THEN NoPresets
        ELSE Items(JsonParse(data))

(***************************************************************************)
(* Category and task CRUD on the data getAppData returned                  *)
(***************************************************************************)
\* dueDate: null
NoDate == 0

addCategory(data, name, id) ==
    [data EXCEPT !.categories =
        Append(@, [id |-> id, name |-> name, order |-> MaxOrder(@) + 1])]

\* data.categories.findIndex(c => c.id === id) !== -1
HasCategory(data, id) ==
    \E k \in 1..Len(data.categories) : data.categories[k].id = id

\* deleteCategory keeps the tasks
TasksKept(tasks, id) == tasks

\* data.tasks.filter(t => t.categoryId !== id)
TasksOfOthers(tasks, id) ==
    LET Other(t) == t.categoryId # id
    IN  SelectSeq(tasks, Other)

\* data.categories.splice(index, 1) at the first index that has the id
SpliceId(items, id) ==
    LET index == CHOOSE k \in 1..Len(items) :
                     items[k].id = id /\ \A j \in 1..(k - 1) : items[j].id # id
    IN  SubSeq(items, 1, index - 1) \o SubSeq(items, index + 1, Len(items))

\* The data deleteCategory saves when the category exists
deleteCategory(data, id) ==
    [categories |-> SpliceId(data.categories, id),
     tasks |-> TasksOfOthers(data.tasks, id)]

\* The comparator of _asyncSortTasksByDate: tasks without due date go last
ByDueDate(a, b) ==
    /\ a.dueDate # NoDate
    /\ b.dueDate = NoDate \/ a.dueDate < b.dueDate

\* _asyncSortTasksByDate: the active tasks of the category get their position
\* in due-date order as order (ids are unique)
asyncSortTasksByDate(tasks, categoryId) ==
    LET Active(t) == t.categoryId = categoryId /\ ~t.completed
        activeTasks == StableSort(SelectSeq(tasks, Active), ByDueDate)
        IndexOf(id) == CHOOSE p \in 1..Len(activeTasks) : activeTasks[p].id = id
    IN  [k \in 1..Len(tasks) |->
            IF Active(tasks[k])
            THEN [tasks[k] EXCEPT !.order = IndexOf(tasks[k].id) - 1]
            ELSE tasks[k]]

\* The data addTask saves
addTask(data, categoryId, title, dueDate, options, id) ==
    LET InCategory(t) == t.categoryId = categoryId
        newTask == Spread([id |-> id, categoryId |-> categoryId, title |-> title,
                           resourceUrl |-> "", notes |-> "", dueDate |-> dueDate,
                           tags |-> <<>>, completed |-> FALSE, isPinned |-> FALSE,
                           order |-> MaxOrder(SelectSeq(data.tasks, InCategory)) + 1,
                           source |-> Undefined],
                          options)
    IN  [data EXCEPT !.tasks = asyncSortTasksByDate(Append(@, newTask), categoryId)]

\* The data updateTask saves when the task exists
updateTask(data, id, updates) ==
    LET tasks == data.tasks
        IsFirst(k) == tasks[k].id = id /\ \A j \in 1..(k - 1) : tasks[j].id # id
    IN  [categories |-> data.categories,
         tasks |-> [k \in 1..Len(tasks) |->
                      IF IsFirst(k) THEN Spread(tasks[k], updates) ELSE tasks[k]]]

\* The task with the id (data.tasks[index] of the first index that has it)
TaskOf(data, id) ==
    data.tasks[CHOOSE k \in 1..Len(data.tasks) :
                   data.tasks[k].id = id /\ \A j \in 1..(k - 1) : data.tasks[j].id # id]

HasTask(data, id) == \E k \in 1..Len(data.tasks) : data.tasks[k].id = id

\* The data deleteTask saves when the task exists
deleteTask(data, id) == [data EXCEPT !.tasks = SpliceId(@, id)]

\* The data toggleTaskComplete saves when the task exists
toggleTaskComplete(data, id) ==
    LET tasks == data.tasks
        IsFirst(k) == tasks[k].id = id /\ \A j \in 1..(k - 1) : tasks[j].id # id
    IN  [categories |-> data.categories,
         tasks |-> [k \in 1..Len(tasks) |->
                      IF IsFirst(k)
                      THEN [tasks[k] EXCEPT !.completed = ~tasks[k].completed]
                      ELSE tasks[k]]]

(***************************************************************************)
(* The other collections                                                   *)
(***************************************************************************)
addQuickLink(db, id) ==
    Append(getQuickLinks(db), [id |-> id, order |-> MaxOrder(getQuickLinks(db)) + 1])

addNote(db, title, content, id) ==
    Append(getNotes(db),
           [id |-> id, title |-> title, content |-> content, isPinned |-> FALSE,
            order |-> MaxOrder(getNotes(db)) + 1, labels |-> <<>>])

\* The notes updateNote saves when the note exists
updateNote(db, id, updates) ==
    LET notes == getNotes(db)
        IsFirst(k) == notes[k].id = id /\ \A j \in 1..(k - 1) : notes[j].id # id
    IN  [k \in 1..Len(notes) |->
            IF IsFirst(k) THEN Spread(notes[k], updates) ELSE notes[k]]

addLabel(db, name, id) == Append(getLabels(db), [id |-> id, name |-> name])

\* labels.findIndex(l => l.id === id) !== -1
HasLabel(db, id) == \E k \in 1..Len(getLabels(db)) : getLabels(db)[k].id = id

\* The note keeps the label
LabelsKept(labels, id) == labels

\* note.labels.filter(labelId => labelId !== id)
LabelsWithout(labels, id) ==
    LET Other(labelId) == labelId # id
    IN  SelectSeq(labels, Other)

\* note.labels?.includes(id)
ListsLabel(note, id) == \E k \in 1..Len(note.labels) : note.labels[k] = id

\* notesChanged in deleteLabel
NotesChanged(db, id) == \E k \in 1..Len(getNotes(db)) : ListsLabel(getNotes(db)[k], id)

\* The notes deleteLabel saves when a note lists the label
NotesAfterDeleteLabel(db, id) ==
    LET notes == getNotes(db)
    IN  [k \in 1..Len(notes) |->
            IF ListsLabel(notes[k], id)
            THEN [notes[k] EXCEPT !.labels = LabelsWithout(@, id)]
            ELSE notes[k]]

\* The labels deleteLabel saves when the label exists
deleteLabel(db, id) == SpliceId(getLabels(db), id)

addTeamMember(db, name, id) == Append(getTeamMembers(db), [id |-> id, name |-> name])

addBusinessTrip(db, id) == Append(getBusinessTrips(db), [id |-> id])

addTripRecord(db, id) == Append(getTripRecords(db), [id |-> id])

\* resolutions[name] = knoxId
saveNameResolution(l, name, knoxId) ==
    LET resolutions == getNameResolutions(l)
    IN  [n \in (DOMAIN resolutions) \cup {name} |->
            IF n = name THEN knoxId ELSE resolutions[n]]

\* { ...getLayoutState(), ...state }
saveLayoutState(l, state) == Spread(getLayoutState(l), state)

\* The presets after saveLayoutPreset(index, state); position index + 1 here
saveLayoutPreset(l, index, state) ==
    LET data == l[LAYOUT_PRESETS_KEY]
        presets == IF Truthy(data) THEN Items(JsonParse(data)) ELSE NoPresets
    IN  [presets EXCEPT ![index + 1] = Obj(Spread(state, [name |-> "preset"]))]

(***************************************************************************)
(* exportData / importData                                                 *)
(***************************************************************************)
\* calendarSettings ? JSON.parse(calendarSettings) : null
ParsedOrNull(valueStr) == IF Truthy(valueStr) THEN JsonParse(valueStr) ELSE Null

\* The object exportData stringifies; id is the id getAppData would generate.
\* A key that uiState lacks has the value null here.
ExportedObject(l, db, id) ==
    [version |-> Num(3),
     data |-> Obj(getAppData(db, id)),
     labels |-> Arr(getLabels(db)),
     quickLinks |-> Arr(getQuickLinks(db)),
     notes |-> Arr(getNotes(db)),
     teamMembers |-> Arr(getTeamMembers(db)),
     businessTrips |-> Arr(getBusinessTrips(db)),
     tripRecords |-> Arr(getTripRecords(db)),
     nameResolutions |-> Obj(getNameResolutions(l)),
     theme |-> getTheme(l),
     layoutState |-> Obj(getLayoutState(l)),
     layoutPresets |-> Arr(getAllLayoutPresets(l)),
     calendarSettings |-> ParsedOrNull(l["calendar-settings"]),
     tripDestinationMappings |-> ParsedOrNull(l["tripDestinationMappings"]),
     uiState |-> Obj([k \in UI_STATE_KEYS |-> l[k]])]

exportData(l, db, id) == JsonStringify(Obj(ExportedObject(l, db, id)))

\* parsed.data && parsed.data.categories
HasCoreData(p) ==
    /\ Truthy(p.data)
    /\ p.data.t = "obj"
    /\ "categories" \in DOMAIN Fields(p.data)

\* parsed.uiState && typeof parsed.uiState === 'object'
HasUiState(p) == Truthy(p.uiState) /\ p.uiState.t \in {"obj", "arr"}

\* The value of key k after the setStorageItem and removeStorageItem calls of
\* importData; old is its value before
ImportedItem(p, k, old) ==
    IF k = NAME_RESOLUTION_KEY
    THEN IF Truthy(p.nameResolutions) THEN JsonStringify(p.nameResolutions) ELSE old
    ELSE IF k = "tripDestinationMappings"
    THEN IF Truthy(p.tripDestinationMappings)
         THEN JsonStringify(p.tripDestinationMappings) ELSE old
    ELSE IF k = THEME_KEY
    THEN IF Truthy(p.theme) THEN p.theme ELSE old
    ELSE IF k = LAYOUT_STATE_KEY
    THEN IF Truthy(p.layoutState) THEN JsonStringify(p.layoutState) ELSE old
    ELSE IF k = LAYOUT_PRESETS_KEY
    THEN IF Truthy(p.layoutPresets) THEN JsonStringify(p.layoutPresets) ELSE old
    ELSE IF k \in UI_STATE_KEYS
    THEN IF HasUiState(p)
         THEN IF IsString(Fields(p.uiState)[k]) THEN Fields(p.uiState)[k] ELSE Null
         ELSE IF k = "calendar-settings" /\ Truthy(p.calendarSettings)
              THEN JsonStringify(p.calendarSettings) ELSE old
    ELSE old

\* The value of an IndexedDB collection key after the save calls of
\* importData
ImportedCollection(p, k, old) ==
    IF k = STORAGE_KEY THEN (IF HasCoreData(p) THEN p.data ELSE old)
    ELSE IF k = QUICK_LINKS_KEY THEN (IF Truthy(p.quickLinks) THEN p.quickLinks ELSE old)
    ELSE IF k = NOTES_KEY THEN (IF Truthy(p.notes) THEN p.notes ELSE old)
    ELSE IF k = LABELS_KEY THEN (IF Truthy(p.labels) THEN p.labels ELSE old)
    ELSE IF k = TEAM_MEMBERS_KEY THEN (IF Truthy(p.teamMembers) THEN p.teamMembers ELSE old)
    ELSE IF k = TRIP_STORAGE_KEY THEN (IF Truthy(p.businessTrips) THEN p.businessTrips ELSE old)
    ELSE IF k = TRIP_RECORD_STORAGE_KEY THEN (IF Truthy(p.tripRecords) THEN p.tripRecords ELSE old)
    ELSE old

CollectionKeys ==
    {STORAGE_KEY, QUICK_LINKS_KEY, NOTES_KEY, LABELS_KEY, TEAM_MEMBERS_KEY,
     TRIP_STORAGE_KEY, TRIP_RECORD_STORAGE_KEY}

\* localStorage and IndexedDB after importData(jsonString), all writes settled
ImportedLs(l, jsonString) ==
    [k \in Keys |-> ImportedItem(Fields(JsonParse(jsonString)), k, l[k])]

ImportedIdb(db, jsonString) ==
    [k \in Keys |->
        IF k \in CollectionKeys
        THEN ImportedCollection(Fields(JsonParse(jsonString)), k, db[k])
        ELSE IF shouldSyncKey(k)
        THEN ImportedItem(Fields(JsonParse(jsonString)), k, db[k])
        ELSE db[k]]

(***************************************************************************)
(* Idle values of the variable groups a specification does not use         *)
(***************************************************************************)
IdleClassify == purpose = <<>> /\ category = None
IdleDate ==
    /\ dateOp = None /\ dateA = <<>> /\ dateB = <<>>
    /\ baseYear = 0 /\ dateOut = [startDate |-> <<>>, endDate |-> <<>>]

NotParsed ==
    [done |-> FALSE, trips |-> <<>>, unknownNames |-> <<>>, ambiguousTrips |-> <<>>,
     lines |-> <<>>, rawTrips |-> <<>>, starts |-> <<>>, scanned |-> {}]

IdleParse ==
    /\ text = <<>> /\ members = <<>> /\ thisYear = 0 /\ parsed = NotParsed
IdleStore ==
    /\ ls = None /\ idb = None /\ mem = None /\ last = None /\ snap = None
    /\ keydown = None

IdleDialog == dialog = None

(***************************************************************************)
(* SpecClassify: classifyPurpose applied to bounded purposes               *)
(***************************************************************************)
MaxFragments == 3

\* Pieces a purpose text is put together from: the keywords, parts of
\* keywords, an unrelated word (chul-jang, "business trip") and a blank.
Fragments ==
    {KwYeoncha, KwHyuga, KwGyoyuk, KwHyeopryeoksa, KwGeomjin,
     <<"yeon">>, <<"cha">>, <<"yuk">>, <<"chul", "jang">>, <<" ">>}

RECURSIVE Concat(_)
Concat(ss) == IF ss = <<>> THEN <<>> ELSE Head(ss) \o Concat(Tail(ss))

PurposeInputs ==
    {Concat(fs) : fs \in UNION {[1..n -> Fragments] : n \in 0..MaxFragments}}

\* The purpose is drawn by Init; the action applies classifyPurpose to it.
ClassifyPurpose ==
    /\ category = None
    /\ category' = classifyPurpose(purpose)
    /\ UNCHANGED <<purpose, dateVars, parseVars, storeVars>>

InitClassify ==
    /\ purpose \in PurposeInputs
    /\ category = None
    /\ IdleDate /\ IdleParse /\ IdleStore /\ IdleDialog

NextClassify == ClassifyPurpose

SpecClassify == InitClassify /\ [][NextClassify]_vars

(***************************************************************************)
(* SpecDate: normalizeDate and normalizeDateRange applied to date strings  *)
(***************************************************************************)
\* The year of the base date
BaseYears == {2026, 2000}

MonthStrs == {<<"2">>, <<"0", "2">>, <<"1", "2">>}
DayStrs == {<<"5">>, <<"1", "2">>, <<"2", "9">>}
Separators == {"-", "."}

ShortDateStrs == {m \o <<s>> \o d : m \in MonthStrs, s \in Separators, d \in DayStrs}
LongDateStrs ==
    {<<"2", "0", "2", "5">> \o <<s>> \o m \o <<s>> \o d :
        s \in Separators, m \in {<<"0", "2">>, <<"1", "2">>}, d \in {<<"1", "2">>}}
OtherStrs == {<<>>, <<"1", "2", "-">>, <<"1", "2", "3", "-", "1">>, <<"j", "o", "n", "g">>}
PaddedStrs == {<<" ">> \o d \o <<" ">> : d \in {<<"1", "2", "-", "2", "9">>, <<"2", ".", "5">>}}

DateInputs == ShortDateStrs \cup LongDateStrs \cup OtherStrs \cup PaddedStrs

\* The arguments are drawn by Init; each action applies one function to them.
NormalizeDate ==
    /\ dateOp = None
    /\ dateOp' = "normalizeDate"
    /\ dateOut' = [startDate |-> normalizeDate(dateA, baseYear), endDate |-> <<>>]
    /\ UNCHANGED <<dateA, dateB, baseYear, classifyVars, parseVars, storeVars>>

NormalizeDateRange ==
    /\ dateOp = None
    /\ dateOp' = "normalizeDateRange"
    /\ dateOut' = normalizeDateRange(dateA, dateB, baseYear)
    /\ UNCHANGED <<dateA, dateB, baseYear, classifyVars, parseVars, storeVars>>

InitDate ==
    /\ dateOp = None
    /\ dateA \in DateInputs
    /\ dateB \in DateInputs
    /\ baseYear \in BaseYears
    /\ dateOut = [startDate |-> <<>>, endDate |-> <<>>]
    /\ IdleClassify /\ IdleParse /\ IdleStore /\ IdleDialog

NextDate == NormalizeDate \/ NormalizeDateRange

SpecDate == InitDate /\ [][NextDate]_vars

(***************************************************************************)
(* SpecParse: parseTripText applied to bounded clipboard texts and rosters *)
(***************************************************************************)
MaxPieces == 3

\* The current year (new Date().getFullYear())
ThisYears == {2026}

DateSingle == <<"0", "2", "-", "0", "1">>
DateRange == <<"1", "2", "-", "2", "9", " ", "~", " ", "0", "2", "-", "1", "2">>
DateRangeTight == <<"0", "3", "-", "3", "0", "~", "0", "4", "-", "0", "2">>
YearLine == <<"2", "0", "2", "7", "-", "0", "3", "-", "0", "1">>
NameKim == <<"K", "i", "m">>
NameLee == <<"L", "e", "e">>
NamePak == <<"P", "a", "k">>
PurposeTrip == <<"chul", "jang">>
PurposeVacation == <<"yeon", "cha">>

Block(d, n, p) == d \o <<"\n">> \o n \o <<"\n">> \o p

\* The pieces a clipboard text is put together from: whole blocks and single
\* lines (padded and followed by a blank line, not a name, holding an
\* explicit year).
Pieces ==
    {Block(DateSingle, NameKim, PurposeTrip),
     Block(DateSingle, NameKim, PurposeVacation),
     Block(DateSingle, NameLee, PurposeTrip),
     Block(DateRange, NameLee, PurposeTrip),
     Block(DateSingle, NamePak, PurposeTrip),
     <<" ">> \o DateSingle \o <<"\r", "\n", " ">>,
     DateRangeTight,
     <<" ">> \o NameLee \o <<" ">>,
     JongIl,
     YearLine}

RECURSIVE JoinLines(_)
JoinLines(ps) ==
    IF ps = <<>> THEN <<>>
    ELSE IF Len(ps) = 1 THEN ps[1]
    ELSE Head(ps) \o <<"\n">> \o JoinLines(Tail(ps))

TextInputs ==
    {JoinLines(ps) : ps \in UNION {[1..n -> Pieces] : n \in 0..MaxPieces}}

\* Rosters: a unique name, a name two members share (one stored with a
\* trailing blank), a member without knoxId, a name three members share.
Rosters ==
    {<<[name |-> NameKim, knoxId |-> "k1"],
       [name |-> NameLee, knoxId |-> "k2"],
       [name |-> NameLee \o <<" ">>, knoxId |-> "k3"]>>,
     <<[name |-> NameLee, knoxId |-> Undefined],
       [name |-> NamePak, knoxId |-> "k4"],
       [name |-> <<" ">> \o NamePak, knoxId |-> "k5"],
       [name |-> NamePak, knoxId |-> "k6"]>>}

\* The text and the roster are drawn by Init; the action applies parseTripText
\* and records, next to its result, the lines and the scan's progress.
ParseTripText ==
    /\ ~parsed.done
    /\ LET lines == LinesOf(text)
           result == parseTripText(text, members, thisYear)
       IN  parsed' = [done |-> TRUE,
                      trips |-> result.trips,
                      unknownNames |-> result.unknownNames,
                      ambiguousTrips |-> result.ambiguousTrips,
                      lines |-> lines,
                      rawTrips |-> ScannedTrips(lines, members, BaseYearOf(lines, thisYear)),
                      starts |-> StartsFrom(lines, 1),
                      scanned |-> ScannedFrom(lines, 1)]
    /\ UNCHANGED <<text, members, thisYear, classifyVars, dateVars, storeVars>>

InitParse ==
    /\ text \in TextInputs
    /\ members \in Rosters
    /\ thisYear \in ThisYears
    /\ parsed = NotParsed
    /\ IdleClassify /\ IdleDate /\ IdleStore /\ IdleDialog

NextParse == ParseTripText

SpecParse == InitParse /\ [][NextParse]_vars

(***************************************************************************)
(* Stores the specifications start from                                    *)
(***************************************************************************)
MaxOps == 3

\* The ids of the data that exists at the start; generateId gives later ones
StartIds == 1..17

\* A task the user entered by hand
StartTask(id, categoryId, dueDate, completed, order) ==
    [id |-> id, categoryId |-> categoryId, title |-> <<"t">>, resourceUrl |-> "",
     notes |-> "", dueDate |-> dueDate, tags |-> <<>>, completed |-> completed,
     isPinned |-> FALSE, order |-> order, source |-> Undefined]

StartData ==
    [categories |-> <<[id |-> 1, name |-> "work", order |-> 0],
                      [id |-> 2, name |-> "home", order |-> 1]>>,
     tasks |-> <<StartTask(3, 1, 2, FALSE, 0), StartTask(4, 1, NoDate, TRUE, 1),
                 StartTask(5, 2, 1, FALSE, 0)>>]
StartQuickLinks == <<[id |-> 6, order |-> 1], [id |-> 7, order |-> 0]>>
StartNotes ==
    <<[id |-> 8, title |-> "memo", content |-> "", isPinned |-> FALSE, order |-> 0,
       labels |-> <<10, 11>>],
      [id |-> 9, title |-> "memo", content |-> "", isPinned |-> TRUE, order |-> 1,
       labels |-> <<10>>]>>
StartLabels == <<[id |-> 10, name |-> "beta"], [id |-> 11, name |-> "alpha"]>>
StartTeamMembers == <<[id |-> 12, name |-> "Lee"], [id |-> 13, name |-> "Kim"]>>
StartTrips == <<[id |-> 14]>>
StartRecords == <<[id |-> 15]>>
StartResolutions == [Lee |-> "k2"]
StartLayout ==
    [layout |-> 2, taskListWidth |-> 300, isSidebarVisible |-> FALSE, showWeekends |-> TRUE]

\* localStorage of a browser used before the migration existed.  The trips,
\* the trip records and the name resolutions are under the given keys.
LegacyLs(tripKey, recordKey, resolutionKey, flag) ==
    [k \in Keys |->
        IF k = STORAGE_KEY THEN JsonStringify(Obj(StartData))
        ELSE IF k = QUICK_LINKS_KEY THEN JsonStringify(Arr(StartQuickLinks))
        ELSE IF k = NOTES_KEY THEN JsonStringify(Arr(StartNotes))
        ELSE IF k = LABELS_KEY THEN JsonStringify(Arr(StartLabels))
        ELSE IF k = TEAM_MEMBERS_KEY THEN JsonStringify(Arr(StartTeamMembers))
        ELSE IF k = tripKey THEN JsonStringify(Arr(StartTrips))
        ELSE IF k = recordKey THEN JsonStringify(Arr(StartRecords))
        ELSE IF k = resolutionKey THEN JsonStringify(Obj(StartResolutions))
        ELSE IF k = THEME_KEY THEN Str("dark")
        ELSE IF k = LAYOUT_STATE_KEY THEN JsonStringify(Obj(StartLayout))
        ELSE IF k = "calendar-settings" THEN JsonStringify(Obj([weekStart |-> 1]))
        ELSE IF k = "tripViewMode" THEN Str("gantt")
        ELSE IF k = IDB_MIGRATION_KEY THEN flag
        ELSE Null]

\* The data under the keys the getters use, no flag
LegacyOwnKeys ==
    LegacyLs(TRIP_STORAGE_KEY, TRIP_RECORD_STORAGE_KEY, NAME_RESOLUTION_KEY, Null)
\* The data under the keys of IDB_SYNC_KEYS, the flag of an earlier version
LegacySyncKeys ==
    LegacyLs("local-tasks-business-trips", "local-tasks-trip-records",
             "tripNameResolutions", JsonStringify(Num(1)))

\* A new browser; a browser before the migration (two layouts); a browser in
\* use after the migration, with trips and trip records saved since
FreshStore == [ls |-> EmptyStore, idb |-> EmptyStore, migrated |-> FALSE]
LegacyStores ==
    {[ls |-> LegacyOwnKeys, idb |-> EmptyStore, migrated |-> FALSE],
     [ls |-> LegacySyncKeys, idb |-> EmptyStore, migrated |-> FALSE]}
UsedStore ==
    [ls |-> MigratedLs(LegacyOwnKeys),
     idb |-> [MigratedIdb(LegacyOwnKeys, EmptyStore) EXCEPT
                 ![TRIP_STORAGE_KEY] = Arr(<<[id |-> 16]>>),
                 ![TRIP_RECORD_STORAGE_KEY] = Arr(<<[id |-> 17]>>)],
     migrated |-> TRUE]

(***************************************************************************)
(* Bookkeeping                                                             *)
(*                                                                         *)
(* last describes the latest call: its name, argument and return value,    *)
(* the idbSet and localStorage.removeItem calls initializeIndexedDBStorage *)
(* made in it, the number of calls so far, the next id of generateId, and  *)
(* whether a migration has completed.                                      *)
(* snap holds the latest export: the string and the values the getters had.*)
(***************************************************************************)
Start(store) ==
    [op |-> "start", arg |-> 0, ret |-> 0, writes |-> 0, removals |-> 0, ops |-> 0,
     nextId |-> Cardinality(StartIds) + 1, migrated |-> store.migrated]

\* last after a call that generated ids ids
Called(op, arg, ret, ids) ==
    [op |-> op, arg |-> arg, ret |-> ret, writes |-> 0, removals |-> 0,
     ops |-> last.ops + 1, nextId |-> last.nextId + ids, migrated |-> last.migrated]

NoSnap == [taken |-> FALSE, json |-> Null, views |-> <<>>]
NoMem == None

\* What the getters return on a store (getAppData on a store without data
\* would generate an id; the id is 0 here)
Views(l, db) ==
    [categories |-> getAppData(db, 0).categories,
     tasks |-> getAppData(db, 0).tasks,
     quickLinks |-> getQuickLinks(db),
     notes |-> getNotes(db),
     labels |-> getLabels(db),
     teamMembers |-> getTeamMembers(db),
     businessTrips |-> getBusinessTrips(db),
     tripRecords |-> getTripRecords(db),
     nameResolutions |-> getNameResolutions(l),
     theme |-> getTheme(l),
     layoutState |-> getLayoutState(l),
     layoutPresets |-> getAllLayoutPresets(l)]

(***************************************************************************)
(* SpecStore: the storage layer called directly                            *)
(***************************************************************************)
idleVars == <<classifyVars, dateVars, parseVars, dialog>>
otherVars == <<idleVars, keydown>>

InitializeIndexedDBStorage ==
    /\ last.ops < MaxOps
    /\ IF NeedsMigration(ls)
       THEN /\ ls' = MigratedLs(ls)
            /\ idb' = MigratedIdb(ls, idb)
            /\ last' = [Called("initializeIndexedDBStorage", 0, 0, 0) EXCEPT
                            !.writes = MigrationWrites(ls),
                            !.removals = MigrationRemovals,
                            !.migrated = TRUE]
       ELSE /\ UNCHANGED <<ls, idb>>
            /\ last' = Called("initializeIndexedDBStorage", 0, 0, 0)
    /\ UNCHANGED <<mem, snap, otherVars>>

StorageAddCategory ==
    /\ last.ops < MaxOps
    /\ \E name \in {"work"} :
         LET id == last.nextId + IdsOfGetAppData(idb)
         IN  /\ idb' = [idb EXCEPT ![STORAGE_KEY] =
                           Obj(addCategory(getAppData(idb, last.nextId), name, id))]
             /\ last' = Called("addCategory", name, id, IdsOfGetAppData(idb) + 1)
    /\ UNCHANGED <<ls, mem, snap, otherVars>>

AddQuickLink ==
    /\ last.ops < MaxOps
    /\ idb' = [idb EXCEPT ![QUICK_LINKS_KEY] = Arr(addQuickLink(idb, last.nextId))]
    /\ last' = Called("addQuickLink", 0, last.nextId, 1)
    /\ UNCHANGED <<ls, mem, snap, otherVars>>

AddNote ==
    /\ last.ops < MaxOps
    /\ idb' = [idb EXCEPT ![NOTES_KEY] = Arr(addNote(idb, "memo", "", last.nextId))]
    /\ last' = Called("addNote", 0, last.nextId, 1)
    /\ UNCHANGED <<ls, mem, snap, otherVars>>

AddLabel ==
    /\ last.ops < MaxOps
    /\ \E name \in {"alpha"} :
         /\ idb' = [idb EXCEPT ![LABELS_KEY] = Arr(addLabel(idb, name, last.nextId))]
         /\ last' = Called("addLabel", name, last.nextId, 1)
    /\ UNCHANGED <<ls, mem, snap, otherVars>>

\* deleteLabel of a stored label, or of the id 0 that no label has
DeleteLabel ==
    /\ last.ops < MaxOps
    /\ \E id \in {getLabels(idb)[k].id : k \in 1..Len(getLabels(idb))} \cup {0} :
         /\ idb' = IF ~HasLabel(idb, id) THEN idb
                   ELSE [idb EXCEPT
                            ![NOTES_KEY] = IF NotesChanged(idb, id)
                                           THEN Arr(NotesAfterDeleteLabel(idb, id))
                                           ELSE @,
                            ![LABELS_KEY] = Arr(deleteLabel(idb, id))]
         /\ last' = Called("deleteLabel", id, HasLabel(idb, id), 0)
    /\ UNCHANGED <<ls, mem, snap, otherVars>>

AddTeamMember ==
    /\ last.ops < MaxOps
    /\ \E name \in {"Kim"} :
         /\ idb' = [idb EXCEPT ![TEAM_MEMBERS_KEY] =
                       Arr(addTeamMember(idb, name, last.nextId))]
         /\ last' = Called("addTeamMember", name, last.nextId, 1)
    /\ UNCHANGED <<ls, mem, snap, otherVars>>

AddBusinessTrip ==
    /\ last.ops < MaxOps
    /\ idb' = [idb EXCEPT ![TRIP_STORAGE_KEY] = Arr(addBusinessTrip(idb, last.nextId))]
    /\ last' = Called("addBusinessTrip", 0, last.nextId, 1)
    /\ UNCHANGED <<ls, mem, snap, otherVars>>

AddTripRecord ==
    /\ last.ops < MaxOps
    /\ idb' = [idb EXCEPT ![TRIP_RECORD_STORAGE_KEY] = Arr(addTripRecord(idb, last.nextId))]
    /\ last' = Called("addTripRecord", 0, last.nextId, 1)
    /\ UNCHANGED <<ls, mem, snap, otherVars>>

\* setStorageItem(key, value)
SetStorageItem(key, value) ==
    /\ ls' = LsSet(ls, key, value)
    /\ idb' = IdbMirror(idb, key, value)

SaveNameResolution ==
    /\ last.ops < MaxOps
    /\ \E name \in {"Pak"}, knoxId \in {"k4"} :
         /\ SetStorageItem(NAME_RESOLUTION_KEY,
                           JsonStringify(Obj(saveNameResolution(ls, name, knoxId))))
         /\ last' = Called("saveNameResolution", name, 0, 0)
    /\ UNCHANGED <<mem, snap, otherVars>>

SetTheme ==
    /\ last.ops < MaxOps
    /\ \E theme \in {"light", "dark"} :
         /\ SetStorageItem(THEME_KEY, Str(theme))
         /\ last' = Called("setTheme", theme, 0, 0)
    /\ UNCHANGED <<mem, snap, otherVars>>

SaveLayoutState ==
    /\ last.ops < MaxOps
    /\ \E state \in {[layout |-> 3]} :
         /\ SetStorageItem(LAYOUT_STATE_KEY,
                           JsonStringify(Obj(saveLayoutState(ls, state))))
         /\ last' = Called("saveLayoutState", state, 0, 0)
    /\ UNCHANGED <<mem, snap, otherVars>>

SaveLayoutPreset ==
    /\ last.ops < MaxOps
    /\ \E index \in {0} :
         /\ SetStorageItem(LAYOUT_PRESETS_KEY,
                JsonStringify(Arr(saveLayoutPreset(ls, index, getLayoutState(ls)))))
         /\ last' = Called("saveLayoutPreset", index, 0, 0)
    /\ UNCHANGED <<mem, snap, otherVars>>

\* exportData; the string is kept, with the values the getters returned
ExportData ==
    /\ last.ops < MaxOps
    /\ ~snap.taken
    /\ idb' = IdbAfterGetAppData(idb, last.nextId)
    /\ snap' = [taken |-> TRUE,
                json |-> exportData(ls, idb, last.nextId),
                views |-> Views(ls, IdbAfterGetAppData(idb, last.nextId))]
    /\ last' = Called("exportData", 0, 0, IdsOfGetAppData(idb))
    /\ UNCHANGED <<ls, mem, otherVars>>

\* importData of the exported string; arg tells whether the store had
\* changed since the export
ImportData ==
    /\ last.ops < MaxOps
    /\ snap.taken
    /\ ls' = ImportedLs(ls, snap.json)
    /\ idb' = ImportedIdb(idb, snap.json)
    /\ last' = Called("importData", Views(ls, idb) # snap.views, TRUE, 0)
    /\ UNCHANGED <<mem, snap, otherVars>>

InitStore ==
    /\ \E store \in {FreshStore, UsedStore} \cup LegacyStores :
         /\ ls = store.ls
         /\ idb = store.idb
         /\ last = Start(store)
    /\ mem = NoMem
    /\ snap = NoSnap
    /\ keydown = None
    /\ IdleClassify /\ IdleDate /\ IdleParse /\ IdleDialog

NextStore ==
    \/ InitializeIndexedDBStorage
    \/ StorageAddCategory
    \/ AddQuickLink
    \/ AddNote
    \/ AddLabel
    \/ DeleteLabel
    \/ AddTeamMember
    \/ AddBusinessTrip
    \/ AddTripRecord
    \/ SaveNameResolution
    \/ SetTheme
    \/ SaveLayoutState
    \/ SaveLayoutPreset
    \/ ExportData
    \/ ImportData

SpecStore == InitStore /\ [][NextStore]_vars

(***************************************************************************)
(* SpecProvider: the DataProvider over the storage layer                   *)
(*                                                                         *)
(* mem is the provider's state (the useState collections).  The provider's *)
(* calls run one at a time.                                                *)
(***************************************************************************)
\* useState([]) of every collection
EmptyMem ==
    [categories |-> <<>>, tasks |-> <<>>, notes |-> <<>>, labels |-> <<>>,
     quickLinks |-> <<>>, teamMembers |-> <<>>, businessTrips |-> <<>>,
     tripRecords |-> <<>>]

\* prev.filter(c => c.id !== id)
WithoutId(items, id) ==
    LET Other(x) == x.id # id
    IN  SelectSeq(items, Other)

IdsOf(items) == {items[k].id : k \in 1..Len(items)}

\* refreshData: initializeIndexedDBStorage, then every collection is loaded.
\* getCategories and getTasks run concurrently and each calls getAppData: on
\* a store without data each creates and saves default data of its own, and
\* the data saved last stays.
RefreshData ==
    /\ last.ops < MaxOps
    /\ LET migrates == NeedsMigration(ls)
           db == IF migrates THEN MigratedIdb(ls, idb) ELSE idb
           id == last.nextId
       IN  /\ ls' = IF migrates THEN MigratedLs(ls) ELSE ls
           /\ \E saved \in {id, id + IdsOfGetAppData(db)} :
                 idb' = IdbAfterGetAppData(db, saved)
           /\ mem' = [categories |-> getCategories(getAppData(db, id)),
                      tasks |-> getTasks(getAppData(db, id + 1)),
                      notes |-> getNotes(db),
                      labels |-> getLabels(db),
                      quickLinks |-> getQuickLinks(db),
                      teamMembers |-> getTeamMembers(db),
                      businessTrips |-> getBusinessTrips(db),
                      tripRecords |-> getTripRecords(db)]
           /\ last' = [Called("refreshData", 0, 0, 2 * IdsOfGetAppData(db)) EXCEPT
                           !.writes = IF migrates THEN MigrationWrites(ls) ELSE 0,
                           !.removals = IF migrates THEN MigrationRemovals ELSE 0,
                           !.migrated = TRUE]
    /\ UNCHANGED <<snap, otherVars>>

\* DataProvider.addCategory
AddCategory ==
    /\ last.ops < MaxOps
    /\ \E name \in {"work"} :
         LET id == last.nextId + IdsOfGetAppData(idb)
             data == addCategory(getAppData(idb, last.nextId), name, id)
             newCat == data.categories[Len(data.categories)]
         IN  /\ idb' = [idb EXCEPT ![STORAGE_KEY] = Obj(data)]
             /\ mem' = [mem EXCEPT !.categories = Append(@, newCat)]
             /\ last' = Called("addCategory", name, newCat, IdsOfGetAppData(idb) + 1)
    /\ UNCHANGED <<ls, snap, otherVars>>

\* DataProvider.deleteCategory
DeleteCategory ==
    /\ last.ops < MaxOps
    /\ \E id \in IdsOf(mem.categories) \cup IdsOf(getAppData(idb, last.nextId).categories) :
         LET data == getAppData(idb, last.nextId)
             success == HasCategory(data, id)
         IN  /\ idb' = IF success
                       THEN [idb EXCEPT ![STORAGE_KEY] = Obj(deleteCategory(data, id))]
                       ELSE IdbAfterGetAppData(idb, last.nextId)
             /\ mem' = IF success
                       THEN [mem EXCEPT !.categories = WithoutId(@, id),
                                        !.tasks = TasksOfOthers(@, id)]
                       ELSE mem
             /\ last' = Called("deleteCategory", id, success, IdsOfGetAppData(idb))
    /\ UNCHANGED <<ls, snap, otherVars>>

\* DataProvider.addTask
AddTask ==
    /\ last.ops < MaxOps
    /\ \E categoryId \in IdsOf(mem.categories), dueDate \in {NoDate, 1} :
         LET id == last.nextId + IdsOfGetAppData(idb)
             data == addTask(getAppData(idb, last.nextId), categoryId, <<"t">>, dueDate,
                             EmptyObject, id)
             newTask == TaskOf(data, id)
         IN  /\ idb' = [idb EXCEPT ![STORAGE_KEY] = Obj(data)]
             /\ mem' = [mem EXCEPT !.tasks = Append(@, newTask)]
             /\ last' = Called("addTask", categoryId, newTask, IdsOfGetAppData(idb) + 1)
    /\ UNCHANGED <<ls, snap, otherVars>>

\* prev.map(t => t.id === id ? updated : t)
ReplaceId(items, id, updated) ==
    [k \in 1..Len(items) |-> IF items[k].id = id THEN updated ELSE items[k]]

\* DataProvider.deleteTask
DeleteTask ==
    /\ last.ops < MaxOps
    /\ \E id \in IdsOf(mem.tasks) :
         LET data == getAppData(idb, last.nextId)
             success == HasTask(data, id)
         IN  /\ idb' = IF success
                       THEN [idb EXCEPT ![STORAGE_KEY] = Obj(deleteTask(data, id))]
                       ELSE IdbAfterGetAppData(idb, last.nextId)
             /\ mem' = IF success THEN [mem EXCEPT !.tasks = WithoutId(@, id)] ELSE mem
             /\ last' = Called("deleteTask", id, success, IdsOfGetAppData(idb))
    /\ UNCHANGED <<ls, snap, otherVars>>

\* DataProvider.toggleTaskComplete
ToggleTaskComplete ==
    /\ last.ops < MaxOps
    /\ \E id \in IdsOf(mem.tasks) :
         LET data == getAppData(idb, last.nextId)
             found == HasTask(data, id)
         IN  /\ idb' = IF found
                       THEN [idb EXCEPT ![STORAGE_KEY] = Obj(toggleTaskComplete(data, id))]
                       ELSE IdbAfterGetAppData(idb, last.nextId)
             /\ mem' = IF found
                       THEN [mem EXCEPT !.tasks =
                                ReplaceId(@, id, TaskOf(toggleTaskComplete(data, id), id))]
                       ELSE mem
             /\ last' = Called("toggleTaskComplete", id, found, IdsOfGetAppData(idb))
    /\ UNCHANGED <<ls, snap, otherVars>>

\* DataProvider.addNote
ProviderAddNote ==
    /\ last.ops < MaxOps
    /\ LET notes == addNote(idb, "memo", "", last.nextId)
       IN  /\ idb' = [idb EXCEPT ![NOTES_KEY] = Arr(notes)]
           /\ mem' = [mem EXCEPT !.notes = Append(@, notes[Len(notes)])]
           /\ last' = Called("addNote", 0, notes[Len(notes)], 1)
    /\ UNCHANGED <<ls, snap, otherVars>>

\* DataProvider.addQuickLink
ProviderAddQuickLink ==
    /\ last.ops < MaxOps
    /\ LET links == addQuickLink(idb, last.nextId)
       IN  /\ idb' = [idb EXCEPT ![QUICK_LINKS_KEY] = Arr(links)]
           /\ mem' = [mem EXCEPT !.quickLinks = Append(@, links[Len(links)])]
           /\ last' = Called("addQuickLink", 0, links[Len(links)], 1)
    /\ UNCHANGED <<ls, snap, otherVars>>

InitProvider ==
    /\ \E store \in {FreshStore, UsedStore} \cup LegacyStores :
         /\ ls = store.ls
         /\ idb = store.idb
         /\ last = Start(store)
    /\ mem = EmptyMem
    /\ snap = NoSnap
    /\ keydown = None
    /\ IdleClassify /\ IdleDate /\ IdleParse /\ IdleDialog

NextProvider ==
    \/ RefreshData
    \/ AddCategory
    \/ DeleteCategory
    \/ AddTask
    \/ DeleteTask
    \/ ToggleTaskComplete
    \/ ProviderAddNote
    \/ ProviderAddQuickLink

SpecProvider == InitProvider /\ [][NextProvider]_vars

(***************************************************************************)
(* Properties of classifyPurpose                                           *)
(***************************************************************************)
HasVacationKeyword(p) == Includes(p, <<"yeon", "cha">>) \/ Includes(p, <<"hyu", "ga">>)
HasEducationKeyword(p) == Includes(p, <<"gyo", "yuk">>)
\* C10 as stated: every classified purpose that contains neither the
\* education keyword nor a vacation keyword is classified 'trip'.
C10_TripForEverythingElse ==
    (category # None /\ ~HasVacationKeyword(purpose) /\ ~HasEducationKeyword(purpose))
        => category = "trip"

HasOthersKeyword(p) ==
    Includes(p, <<"hyeop", "ryeok", "sa">>) \/ Includes(p, <<"geom", "jin">>)

\* C11: every classified purpose that contains a vacation keyword is
\* classified 'vacation', also when it contains the education keyword or one
\* of the others keywords; a purpose that contains the education keyword and
\* no vacation keyword is classified 'education'.
C11_VacationPriority ==
    category # None =>
        /\ HasVacationKeyword(purpose) => category = "vacation"
        /\ (HasEducationKeyword(purpose) /\ ~HasVacationKeyword(purpose))
              => category = "education"

\* A purpose with a vacation keyword, the education keyword and one of the
\* others keywords was classified 'vacation'.
C11_Witness ==
    /\ category = "vacation"
    /\ HasVacationKeyword(purpose)
    /\ HasEducationKeyword(purpose)
    /\ HasOthersKeyword(purpose)

(***************************************************************************)
(* Properties of normalizeDate and normalizeDateRange                      *)
(***************************************************************************)
DigitsAt(s, from, to) == \A k \in from..to : IsDigit(s[k])

\* YYYY-MM-DD
IsIsoDate(s) ==
    /\ Len(s) = 10
    /\ DigitsAt(s, 1, 4) /\ s[5] = "-" /\ DigitsAt(s, 6, 7) /\ s[8] = "-"
    /\ DigitsAt(s, 9, 10)

\* MM-DD
IsFormMonthDay(s) ==
    Len(s) = 5 /\ DigitsAt(s, 1, 2) /\ s[3] = "-" /\ DigitsAt(s, 4, 5)

\* YYYY.MM.DD
IsFormDotted(s) ==
    /\ Len(s) = 10
    /\ DigitsAt(s, 1, 4) /\ s[5] = "." /\ DigitsAt(s, 6, 7) /\ s[8] = "."
    /\ DigitsAt(s, 9, 10)

\* C9: normalizeDate returns a string of the form YYYY-MM-DD for every input
\* of the forms MM-DD, YYYY.MM.DD and YYYY-MM-DD, with the base date's year
\* when the input has no year.
C9_NormalizeDateIso ==
    (dateOp = "normalizeDate"
        /\ (IsFormMonthDay(dateA) \/ IsFormDotted(dateA) \/ IsIsoDate(dateA)))
        => /\ IsIsoDate(dateOut.startDate)
           /\ IsFormMonthDay(dateA)
                => DigitsValue(SubSeq(dateOut.startDate, 1, 4)) = baseYear

\* A short date: one or two digits, '-' or '.', one or two digits
\* (surrounding blanks ignored); its separator, month and day.
SepIndex(s) == CHOOSE k \in 1..Len(s) : ~IsDigit(s[k])
IsShortForm(s) ==
    LET t == Trim(s)
    IN  /\ Len(t) \in 3..5
        /\ \E k \in 2..3 :
              /\ t[k] \in {"-", "."}
              /\ Len(t) - k \in 1..2
              /\ \A j \in (1..Len(t)) \ {k} : IsDigit(t[j])
ShortMonth(s) == LET t == Trim(s) IN DigitsValue(SubSeq(t, 1, SepIndex(t) - 1))
ShortDay(s) == LET t == Trim(s) IN DigitsValue(SubSeq(t, SepIndex(t) + 1, Len(t)))
TwoDigits(n) == <<DigitChars[(n \div 10) + 1], DigitChars[(n % 10) + 1]>>
IsoOf(y, m, d) == NatToStr(y) \o <<"-">> \o TwoDigits(m) \o <<"-">> \o TwoDigits(d)

\* C3: for a range of two short dates, endDate is in the base year and
\* startDate is in the previous year exactly when the start month is greater
\* than the end month, otherwise in the base year; month and day are
\* zero-padded.  12-29 ~ 02-12 with base year 2026 gives 2025-12-29 and
\* 2026-02-12.
C3_RangeYearBoundary ==
    (dateOp = "normalizeDateRange" /\ IsShortForm(dateA) /\ IsShortForm(dateB))
        => /\ dateOut.endDate = IsoOf(baseYear, ShortMonth(dateB), ShortDay(dateB))
           /\ dateOut.startDate =
                IsoOf(IF ShortMonth(dateA) > ShortMonth(dateB)
                      THEN baseYear - 1 ELSE baseYear,
                      ShortMonth(dateA), ShortDay(dateA))
           /\ (/\ dateA = <<"1", "2", "-", "2", "9">>
               /\ dateB = <<"0", "2", "-", "1", "2">>
               /\ baseYear = 2026)
                => /\ dateOut.startDate =
                        <<"2", "0", "2", "5", "-", "1", "2", "-", "2", "9">>
                   /\ dateOut.endDate =
                        <<"2", "0", "2", "6", "-", "0", "2", "-", "1", "2">>

\* The range 12-29 ~ 02-12 has been normalized with base year 2026 and its
\* start was put in 2025.
C3_Witness ==
    /\ dateOp = "normalizeDateRange"
    /\ dateA = <<"1", "2", "-", "2", "9">>
    /\ dateB = <<"0", "2", "-", "1", "2">>
    /\ baseYear = 2026
    /\ dateOut.startDate = <<"2", "0", "2", "5", "-", "1", "2", "-", "2", "9">>

(***************************************************************************)
(* Properties of parseTripText                                             *)
(***************************************************************************)
\* The roster members that have the name n, by trimmed name
MembersNamed(n) == {k \in 1..Len(members) : Trim(members[k].name) = n}

IsReturned(t) == \E k \in 1..Len(parsed.trips) : parsed.trips[k] = t

Elements(seq) == {seq[k] : k \in 1..Len(seq)}

\* C1: every parsed trip is resolved against the roster by trimmed name: with
\* exactly one member of that name it has that member's knoxId; with two or
\* more its knoxId is undefined and, when returned, it is listed in
\* ambiguousTrips with exactly those members as candidates; with none its
\* name is in unknownNames.
C1_ResolveAgainstRoster ==
    parsed.done =>
        \A r \in 1..Len(parsed.rawTrips) :
            LET t == parsed.rawTrips[r]
                named == MembersNamed(t.name)
            IN  /\ Cardinality(named) = 1
                    => \A k \in named : t.knoxId = members[k].knoxId
                /\ Cardinality(named) >= 2
                    => /\ t.knoxId = Undefined
                       /\ IsReturned(t)
                            => \E a \in 1..Len(parsed.ambiguousTrips) :
                                 LET e == parsed.ambiguousTrips[a]
                                 IN  /\ e.trip = t
                                     /\ Len(e.candidates) = Cardinality(named)
                                     /\ Elements(e.candidates) = {members[k] : k \in named}
                /\ Cardinality(named) = 0
                    => t.name \in Elements(parsed.unknownNames)

\* One text gave a trip of a uniquely named member with that member's knoxId,
\* a trip listed as ambiguous and a trip of an unknown name.
C1_Witness ==
    /\ parsed.done
    /\ \E k \in 1..Len(parsed.trips) :
          /\ Cardinality(MembersNamed(parsed.trips[k].name)) = 1
          /\ parsed.trips[k].knoxId \in {"k1", "k2", "k3", "k4", "k5", "k6"}
    /\ \E a \in 1..Len(parsed.ambiguousTrips) :
          Len(parsed.ambiguousTrips[a].candidates) >= 2
    /\ parsed.unknownNames # <<>>

StartsAt(i) == {k \in 1..Len(parsed.starts) : parsed.starts[k] = i}

\* C2: the lines are the trimmed, non-empty lines; the scan starts at the
\* first line; every scanned line that is a date line, has two lines after it
\* and is followed by a name emits exactly one trip with the next line as
\* name and the line after as purpose, and the scan resumes after the
\* purpose line (neither consumed line is scanned); every other scanned line
\* emits nothing and the scan goes to the next line.
C2_ScanBlocks ==
    parsed.done =>
        LET L == parsed.lines
            n == Len(parsed.lines)
        IN  /\ \A i \in 1..n : L[i] # <<>> /\ Trim(L[i]) = L[i]
            /\ n >= 1 => 1 \in parsed.scanned
            /\ parsed.scanned \subseteq 1..n
            /\ Len(parsed.rawTrips) = Len(parsed.starts)
            /\ \A k \in 1..Len(parsed.starts) : parsed.starts[k] \in parsed.scanned
            /\ \A i \in parsed.scanned :
                 IF IsDateLine(L[i]) /\ i + 2 <= n /\ isName(L[i + 1])
                 THEN /\ Cardinality(StartsAt(i)) = 1
                      /\ \A k \in StartsAt(i) :
                            /\ parsed.rawTrips[k].name = L[i + 1]
                            /\ parsed.rawTrips[k].purpose = L[i + 2]
                      /\ (i + 1) \notin parsed.scanned
                      /\ (i + 2) \notin parsed.scanned
                      /\ i + 3 <= n => (i + 3) \in parsed.scanned
                 ELSE /\ StartsAt(i) = {}
                      /\ i + 1 <= n => (i + 1) \in parsed.scanned

\* A block was emitted whose purpose line is itself a date line with a name
\* and another line after it, and that line started no block.
C2_Witness ==
    /\ parsed.done
    /\ \E k \in 1..Len(parsed.starts) :
          LET p == parsed.starts[k] + 2
          IN  /\ p + 2 <= Len(parsed.lines)
              /\ IsDateLine(parsed.lines[p])
              /\ isName(parsed.lines[p + 1])
              /\ p \notin parsed.scanned
              /\ StartsAt(p) = {}

SameTriple(a, b) ==
    a.name = b.name /\ a.startDate = b.startDate /\ a.endDate = b.endDate

\* C8: no two returned trips have the same name, startDate and endDate; a
\* parsed block is returned exactly when no earlier block has its triple;
\* the returned trips keep text order; every trip of ambiguousTrips is
\* returned.
C8_Deduplicated ==
    parsed.done =>
        /\ \A a, b \in 1..Len(parsed.trips) :
              a < b => /\ ~SameTriple(parsed.trips[a], parsed.trips[b])
                       /\ parsed.trips[a].id < parsed.trips[b].id
        /\ \A r \in 1..Len(parsed.rawTrips) :
              IsReturned(parsed.rawTrips[r])
                <=> \A q \in 1..(r - 1) :
                        ~SameTriple(parsed.rawTrips[q], parsed.rawTrips[r])
        /\ \A k \in 1..Len(parsed.trips) :
              \E r \in 1..Len(parsed.rawTrips) : parsed.rawTrips[r] = parsed.trips[k]
        /\ \A a \in 1..Len(parsed.ambiguousTrips) :
              IsReturned(parsed.ambiguousTrips[a].trip)

\* A later block with the triple of an earlier one, but another purpose, was
\* dropped, and an ambiguous trip was returned.
C8_Witness ==
    /\ parsed.done
    /\ \E q, r \in 1..Len(parsed.rawTrips) :
          /\ q < r
          /\ SameTriple(parsed.rawTrips[q], parsed.rawTrips[r])
          /\ parsed.rawTrips[q].purpose # parsed.rawTrips[r].purpose
          /\ IsReturned(parsed.rawTrips[q])
          /\ ~IsReturned(parsed.rawTrips[r])
    /\ parsed.ambiguousTrips # <<>>

(***************************************************************************)
(* Properties of the migration                                             *)
(***************************************************************************)
\* The array that is the JSON text under key k of localStorage
HeldItems(l, k) == Items(JsonParse(l[k]))

\* This step is a call of initializeIndexedDBStorage that found the flag
\* different from '2'
MigrationStep ==
    /\ last'.op = "initializeIndexedDBStorage"
    /\ ls[IDB_MIGRATION_KEY] # MigrationDone

\* C4: after initializeIndexedDBStorage has run on a localStorage that holds
\* pre-migration data, every collection getter returns the data localStorage
\* held for its collection (in the getter's order); the trips and the trip
\* records may have been under the getter's key or under the key of
\* IDB_SYNC_KEYS.
C4_MigrationCarriesData ==
    [][MigrationStep =>
        /\ ls[STORAGE_KEY] # Null
             => getAppData(idb', 0) = Fields(JsonParse(ls[STORAGE_KEY]))
        /\ ls[QUICK_LINKS_KEY] # Null
             => getQuickLinks(idb') = StableSort(HeldItems(ls, QUICK_LINKS_KEY), ByOrder)
        /\ ls[NOTES_KEY] # Null
             => getNotes(idb') = StableSort(HeldItems(ls, NOTES_KEY), ByPinnedThenOrder)
        /\ ls[LABELS_KEY] # Null
             => getLabels(idb') = StableSort(HeldItems(ls, LABELS_KEY), ByName)
        /\ ls[TEAM_MEMBERS_KEY] # Null
             => getTeamMembers(idb') = StableSort(HeldItems(ls, TEAM_MEMBERS_KEY), ByName)
        /\ \A k \in {TRIP_STORAGE_KEY, "local-tasks-business-trips"} :
             ls[k] # Null => getBusinessTrips(idb') = HeldItems(ls, k)
        /\ \A k \in {TRIP_RECORD_STORAGE_KEY, "local-tasks-trip-records"} :
             ls[k] # Null => getTripRecords(idb') = HeldItems(ls, k)
      ]_vars

\* This step is a call of initializeIndexedDBStorage
InitializeStep == last'.op = "initializeIndexedDBStorage"

\* C5: a call of initializeIndexedDBStorage writes to IndexedDB or removes
\* from localStorage only when it finds the flag different from '2'; once a
\* migration has completed the flag is '2', and every later call makes no
\* idbSet call and no removeItem call and leaves IndexedDB and localStorage
\* as they are.
C5_MigrationOneTime ==
    /\ [](last.migrated => ls[IDB_MIGRATION_KEY] = MigrationDone)
    /\ [][InitializeStep =>
            /\ (last'.writes > 0 \/ last'.removals > 0 \/ idb' # idb \/ ls' # ls)
                 => ls[IDB_MIGRATION_KEY] # MigrationDone
            /\ last.migrated
                 => /\ last'.writes = 0
                    /\ last'.removals = 0
                    /\ idb' = idb
                    /\ ls' = ls
            /\ ls[IDB_MIGRATION_KEY] # MigrationDone
                 => /\ last'.migrated
                    /\ \A k \in IDB_SYNC_KEYS \ {IDB_MIGRATION_KEY} :
                          ls[k] # Null
                            => idb'[k] = IF ls[k].t = "json" THEN ls[k].v[1] ELSE ls[k]
                    /\ \A k \in heavyKeys : ls'[k] = Null
         ]_vars

\* A quick link was added after the migration of a legacy store, and a later
\* initializeIndexedDBStorage left it in place without a write.
C5_Witness ==
    /\ last.op = "initializeIndexedDBStorage"
    /\ last.migrated
    /\ last.writes = 0
    /\ last.removals = 0
    /\ idb[QUICK_LINKS_KEY] # Null
    /\ \E k \in 1..Len(getQuickLinks(idb)) : getQuickLinks(idb)[k].id \notin StartIds
    /\ \E k \in 1..Len(getQuickLinks(idb)) : getQuickLinks(idb)[k].id \in StartIds

(***************************************************************************)
(* Properties of exportData / importData                                   *)
(***************************************************************************)
\* C6: after importData of the string exportData produced, categories, tasks,
\* quick links, notes, labels, team members, business trips, trip records,
\* name resolutions, theme, layout state and layout presets, as the getters
\* return them, equal their values at export time.
C6_ExportImportRoundTrip ==
    last.op = "importData" => Views(ls, idb) = snap.views

\* An import put back a store that had changed since the export; the export
\* held business trips, notes and name resolutions.
C6_Witness ==
    /\ last.op = "importData"
    /\ last.arg
    /\ last.ret
    /\ Views(ls, idb) = snap.views
    /\ snap.views.businessTrips # <<>>
    /\ snap.views.notes # <<>>
    /\ DOMAIN snap.views.nameResolutions # {}

(***************************************************************************)
(* Properties of deleteCategory                                            *)
(***************************************************************************)
\* This step is a call of deleteCategory with the id of a stored category
DeleteExistingStep ==
    /\ last'.op = "deleteCategory"
    /\ idb[STORAGE_KEY] # Null
    /\ \E k \in 1..Len(Fields(idb[STORAGE_KEY]).categories) :
          Fields(idb[STORAGE_KEY]).categories[k].id = last'.arg

\* The items of seq whose field f is not id, in order
Except(seq, f, id) ==
    LET Kept(x) == x[f] # id
    IN  SelectSeq(seq, Kept)

\* C7: deleteCategory(id) for a stored category returns true; the stored
\* categories afterwards are the earlier ones without the category, the
\* stored tasks the earlier ones without the tasks whose categoryId is id,
\* all unchanged and in their order; the provider's categories and tasks
\* change in the same way.
C7_DeleteCategoryFrame ==
    [][DeleteExistingStep =>
        LET id == last'.arg
            before == Fields(idb[STORAGE_KEY])
            after == Fields(idb'[STORAGE_KEY])
        IN  /\ last'.ret = TRUE
            /\ after.categories = Except(before.categories, "id", id)
            /\ after.tasks = Except(before.tasks, "categoryId", id)
            /\ mem'.categories = Except(mem.categories, "id", id)
            /\ mem'.tasks = Except(mem.tasks, "categoryId", id)
            /\ \A k \in Keys \ {STORAGE_KEY} : idb'[k] = idb[k]
            /\ ls' = ls
      ]_vars

\* Category 1 with its two tasks was deleted from the store and from the
\* provider's state; category 2 and its task are still in both.
C7_Witness ==
    /\ last.op = "deleteCategory"
    /\ last.arg = 1
    /\ last.ret = TRUE
    /\ idb[STORAGE_KEY] # Null
    /\ IdsOf(Fields(idb[STORAGE_KEY]).categories) = {2}
    /\ IdsOf(Fields(idb[STORAGE_KEY]).tasks) = {5}
    /\ IdsOf(mem.categories) = {2}
    /\ IdsOf(mem.tasks) = {5}

(***************************************************************************)
(* Properties of the DataProvider                                          *)
(***************************************************************************)
\* The items of a sequence, as a set
ItemSet(items) == {items[k] : k \in 1..Len(items)}

\* The stored categories and tasks: none when no data is stored
StoredData(db) ==
    IF db[STORAGE_KEY] = Null THEN [categories |-> <<>>, tasks |-> <<>>]
    ELSE Fields(db[STORAGE_KEY])

\* Every in-memory collection holds the items of the stored collection, with
\* the same field values
Mirrors(m, db) ==
    /\ ItemSet(m.categories) = ItemSet(StoredData(db).categories)
    /\ ItemSet(m.tasks) = ItemSet(StoredData(db).tasks)
    /\ ItemSet(m.notes) = ItemSet(getNotes(db))
    /\ ItemSet(m.quickLinks) = ItemSet(getQuickLinks(db))
    /\ ItemSet(m.labels) = ItemSet(getLabels(db))
    /\ ItemSet(m.teamMembers) = ItemSet(getTeamMembers(db))
    /\ ItemSet(m.businessTrips) = ItemSet(getBusinessTrips(db))
    /\ ItemSet(m.tripRecords) = ItemSet(getTripRecords(db))

\* This step is one of the provider's actions
ProviderActionStep ==
    last'.op \in {"addCategory", "deleteCategory", "addTask", "deleteTask",
                  "toggleTaskComplete", "addNote", "addQuickLink"}

\* C12: a provider action that starts with the data loaded and the
\* in-memory collections equal to the stored ones ends with them equal: each
\* in-memory collection holds the same items with the same field values as
\* the stored collection.
C12_ProviderMirrorsStore ==
    [][(ProviderActionStep /\ idb[STORAGE_KEY] # Null /\ Mirrors(mem, idb))
          => Mirrors(mem', idb')]_vars

(***************************************************************************)
(* Team schedule import (page.tsx)                                         *)
(*                                                                         *)
(* A date is a number month * 100 + day; a title is a sequence of          *)
(* characters.  keydown is the closure the keydown listener holds: the     *)
(* layout, categories and tasks of the render in which the listener was    *)
(* registered.  The listener is registered again only when the layout      *)
(* state changes.                                                          *)
(***************************************************************************)
\* '팀 일정'
TEAM_SCHEDULE == "tim iljeong"

\* `${date.getFullYear()}-${date.getMonth()}`
YearMonth(date) == date \div 100

\* `${format(date, 'yyyy-MM-dd')}|${title.trim()}`
ScheduleKey(date, title) == [date |-> date, title |-> Trim(title)]

\* categories.find(c => c.name === name) !== undefined
HasCategoryNamed(categories, name) ==
    \E k \in 1..Len(categories) : categories[k].name = name

\* categories.find(c => c.name === name)
FindCategoryNamed(categories, name) ==
    categories[CHOOSE k \in 1..Len(categories) :
                   /\ categories[k].name = name
                   /\ \A j \in 1..(k - 1) : categories[j].name # name]

\* The months of the schedules
TargetMonths(schedules) == {YearMonth(schedules[k].date) : k \in 1..Len(schedules)}

\* The tasks step 2 backs up and deletes, in the order of the loop
Overwritten(tasks, categoryId, schedules) ==
    LET Replaced(t) == /\ t.categoryId = categoryId
                       /\ t.source # "manual"
                       /\ t.dueDate # NoDate
                       /\ YearMonth(t.dueDate) \in TargetMonths(schedules)
    IN  SelectSeq(tasks, Replaced)

\* The value backupMap.set stores for a task
BackupOf(t) ==
    [resourceUrl |-> t.resourceUrl, notes |-> t.notes, tags |-> t.tags,
     isPinned |-> t.isPinned, completed |-> t.completed]

\* backupMap after step 2, as its entries in insertion order: a key keeps the
\* position of its first set and the value of its last set
BackupMap(overwritten) ==
    LET KeyOf(k) == ScheduleKey(overwritten[k].dueDate, overwritten[k].title)
        n == Len(overwritten)
        firsts == {k \in 1..n : \A j \in 1..(k - 1) : KeyOf(j) # KeyOf(k)}
        LastOf(k) == CHOOSE j \in 1..n :
                         KeyOf(j) = KeyOf(k) /\ \A i \in (j + 1)..n : KeyOf(i) # KeyOf(k)
        positions == PickInOrder([k \in 1..n |-> k], firsts)
    IN  [p \in 1..Len(positions) |->
            [key |-> KeyOf(positions[p]),
             data |-> BackupOf(overwritten[LastOf(positions[p])])]]

\* The data after deleteTask(t.id) for each of the tasks: of each id the
\* first task that has it is spliced out
DeleteTasks(data, overwritten) ==
    LET tasks == data.tasks
        Spliced(k) == /\ tasks[k].id \in IdsOf(overwritten)
                      /\ \A j \in 1..(k - 1) : tasks[j].id # tasks[k].id
    IN  [data EXCEPT !.tasks = PickInOrder(tasks, {k \in 1..Len(tasks) : ~Spliced(k)})]

\* backupMap.get(key) is defined for schedule k: a task with the key was
\* backed up and no earlier schedule has taken the backup
HasBackup(backups, schedules, k) ==
    LET KeyOf(j) == ScheduleKey(schedules[j].date, schedules[j].title)
    IN  /\ \E p \in 1..Len(backups) : backups[p].key = KeyOf(k)
        /\ \A j \in 1..(k - 1) : KeyOf(j) # KeyOf(k)

\* backupMap.get(key) for schedule k
BackupFor(backups, schedules, k) ==
    backups[CHOOSE p \in 1..Len(backups) :
                backups[p].key = ScheduleKey(schedules[k].date, schedules[k].title)].data

\* One round of the loop of step 3 on the data the rounds before left
AddSchedule(data, categoryId, backups, schedules, firstId, k) ==
    LET id == firstId + k - 1
        added == addTask(data, categoryId, schedules[k].title, schedules[k].date,
                         [source |-> "team"], id)
    IN  IF HasBackup(backups, schedules, k)
        THEN updateTask(added, id, BackupFor(backups, schedules, k))
        ELSE added

\* The data after the first k rounds of step 3
RECURSIVE AddSchedules(_, _, _, _, _, _)
AddSchedules(data, categoryId, backups, schedules, firstId, k) ==
    IF k = 0 THEN data
    ELSE CHOOSE next \in
             {AddSchedule(prev, categoryId, backups, schedules, firstId, k) :
                 prev \in {AddSchedules(data, categoryId, backups, schedules,
                                        firstId, k - 1)}} : TRUE

\* data.resourceUrl || data.notes || (data.tags && data.tags.length > 0)
HasUserData(data) == data.resourceUrl # "" \/ data.notes # "" \/ Len(data.tags) > 0

\* The entries left in backupMap after step 3 that step 4 writes a note for
Orphaned(backups, schedules) ==
    LET Taken(entry) == \E k \in 1..Len(schedules) :
                            entry.key = ScheduleKey(schedules[k].date, schedules[k].title)
        Noted(entry) == ~Taken(entry) /\ HasUserData(entry.data)
    IN  SelectSeq(backups, Noted)

\* `[자동백업] ${dateStr} ${title}` with [dateStr, title] = key.split('|')
BackupNoteTitle(key) ==
    [tag |-> "jadongbaegeop", date |-> key.date, title |-> Split(key.title, "|")[1]]

\* noteContent: the resource, the tags and the notes, each when it is set
BackupNoteContent(data) ==
    [resourceUrl |-> data.resourceUrl, tags |-> data.tags, notes |-> data.notes]

\* One round of the loop of step 4: addNote, then updateNote pins the note
AddBackupNote(db, entry, id) ==
    LET added == [db EXCEPT ![NOTES_KEY] =
                     Arr(addNote(db, BackupNoteTitle(entry.key),
                                 BackupNoteContent(entry.data), id))]
    IN  [added EXCEPT ![NOTES_KEY] = Arr(updateNote(added, id, [isPinned |-> TRUE]))]

\* IndexedDB after the first k rounds of step 4
RECURSIVE AddBackupNotes(_, _, _, _)
AddBackupNotes(db, orphaned, firstId, k) ==
    IF k = 0 THEN db
    ELSE CHOOSE next \in
             {AddBackupNote(prev, orphaned[k], firstId + k - 1) :
                 prev \in {AddBackupNotes(db, orphaned, firstId, k - 1)}} : TRUE

\* What refreshData loads from a store
LoadedMem(db, id) ==
    [categories |-> getCategories(getAppData(db, id)),
     tasks |-> getTasks(getAppData(db, id + 1)),
     notes |-> getNotes(db),
     labels |-> getLabels(db),
     quickLinks |-> getQuickLinks(db),
     teamMembers |-> getTeamMembers(db),
     businessTrips |-> getBusinessTrips(db),
     tripRecords |-> getTripRecords(db)]

\* handleScheduleImport of a render whose categories and tasks are the given
\* ones: steps 1 to 4 on IndexedDB.  The result has the store, the number of
\* ids generated and the category the tasks went to.
ScheduleImport(db, firstId, categories, tasks, schedules) ==
    LET data == getAppData(db, firstId)
        categoryId == firstId + IdsOfGetAppData(db)
        found == HasCategoryNamed(categories, TEAM_SCHEDULE)
        withCategory == IF found THEN data
                        ELSE addCategory(data, TEAM_SCHEDULE, categoryId)
        scheduleCategory ==
            IF found THEN FindCategoryNamed(categories, TEAM_SCHEDULE)
            ELSE withCategory.categories[Len(withCategory.categories)]
        taskId == categoryId + (IF found THEN 0 ELSE 1)
        overwritten == Overwritten(tasks, scheduleCategory.id, schedules)
        backups == BackupMap(overwritten)
        cleared == DeleteTasks(withCategory, overwritten)
        imported == AddSchedules(cleared, scheduleCategory.id, backups, schedules,
                                 taskId, Len(schedules))
        orphaned == Orphaned(backups, schedules)
        noteId == taskId + Len(schedules)
    IN  [idb |-> AddBackupNotes([db EXCEPT ![STORAGE_KEY] = Obj(imported)],
                                orphaned, noteId, Len(orphaned)),
         ids |-> noteId + Len(orphaned) - firstId,
         category |-> scheduleCategory,
         orphanedCount |-> Len(orphaned)]

(***************************************************************************)
(* SpecImport: the page after its first load; schedules are imported from  *)
(* the dialog, from a SCHEDULE_SYNC message and from the clipboard, tasks  *)
(* are edited and the layout is switched                                   *)
(***************************************************************************)
\* The schedule lists parseScheduleText hands over: one schedule, two
\* schedules of one day whose titles differ in white space only, a schedule
\* of another month, and schedules of two months
ScheduleLists ==
    LET first == [date |-> 101, title |-> <<"s">>]
        again == [date |-> 101, title |-> <<"s", " ">>]
        later == [date |-> 201, title |-> <<"s">>]
    IN  {<<first>>, <<first, again>>, <<later>>, <<later, first>>}

\* What the user types into a task
TaskEdits == {[notes |-> "memo"], [resourceUrl |-> "url", tags |-> <<"tag">>]}

\* handleScheduleImport called from a render with the given categories and
\* tasks; step 5 reloads the provider's collections
HandleScheduleImport(op, categories, tasks) ==
    /\ last.ops < MaxOps
    /\ \E schedules \in ScheduleLists :
         \E result \in {ScheduleImport(idb, last.nextId, categories, tasks, schedules)} :
            LET migrates == NeedsMigration(ls)
            IN  /\ ls' = IF migrates THEN MigratedLs(ls) ELSE ls
                /\ idb' = IF migrates THEN MigratedIdb(ls, result.idb) ELSE result.idb
                /\ mem' = LoadedMem(idb', last.nextId + result.ids)
                /\ last' = [Called(op, schedules, result.category, result.ids) EXCEPT
                                !.migrated = TRUE]
    /\ UNCHANGED <<snap, keydown, idleVars>>

\* ScheduleImportDialog: onImport={handleScheduleImport}
DialogImport == HandleScheduleImport("dialogImport", mem.categories, mem.tasks)

\* handleMessage on a SCHEDULE_SYNC message
MessageImport == HandleScheduleImport("messageImport", mem.categories, mem.tasks)

\* handleKeyDown on Ctrl+Shift+V: the listener calls the handleScheduleImport
\* of the render it was registered in
ClipboardImport ==
    HandleScheduleImport("clipboardImport", keydown.categories, keydown.tasks)

\* handleKeyDown on Ctrl+1/2/3: the layout is saved, and when it changed the
\* effect registers the listener again
SwitchLayout ==
    /\ last.ops < MaxOps
    /\ \E newLayout \in {1, 2, 3} :
         /\ SetStorageItem(LAYOUT_STATE_KEY,
                JsonStringify(Obj(saveLayoutState(ls, [layout |-> newLayout]))))
         /\ keydown' = IF newLayout = keydown.layout THEN keydown
                       ELSE [layout |-> newLayout, categories |-> mem.categories,
                             tasks |-> mem.tasks]
         /\ last' = Called("switchLayout", newLayout, 0, 0)
    /\ UNCHANGED <<mem, snap, idleVars>>

\* DataProvider.updateTask
UpdateTask ==
    /\ last.ops < MaxOps
    /\ \E id \in IdsOf(mem.tasks), updates \in TaskEdits :
         LET data == getAppData(idb, last.nextId)
             found == HasTask(data, id)
         IN  /\ idb' = IF found
                       THEN [idb EXCEPT ![STORAGE_KEY] = Obj(updateTask(data, id, updates))]
                       ELSE IdbAfterGetAppData(idb, last.nextId)
             /\ mem' = IF found
                       THEN [mem EXCEPT !.tasks =
                                ReplaceId(@, id, TaskOf(updateTask(data, id, updates), id))]
                       ELSE mem
             /\ last' = Called("updateTask", id, found, IdsOfGetAppData(idb))
    /\ UNCHANGED <<ls, snap, keydown, idleVars>>

\* The page is mounted and refreshData has loaded the store; the keydown
\* listener is the one of the renders before the load
InitImport ==
    /\ \E store \in {FreshStore, UsedStore} :
         LET migrates == NeedsMigration(store.ls)
             db == IF migrates THEN MigratedIdb(store.ls, store.idb) ELSE store.idb
             id == Start(store).nextId
         IN  /\ ls = IF migrates THEN MigratedLs(store.ls) ELSE store.ls
             /\ \E saved \in {id, id + IdsOfGetAppData(db)} :
                   idb = IdbAfterGetAppData(db, saved)
             /\ mem = LoadedMem(db, id)
             /\ last = [Start(store) EXCEPT !.op = "refreshData",
                                            !.nextId = id + 2 * IdsOfGetAppData(db),
                                            !.migrated = TRUE]
             /\ keydown = [layout |-> getLayoutState(store.ls).layout,
                           categories |-> <<>>, tasks |-> <<>>]
    /\ snap = NoSnap
    /\ IdleClassify /\ IdleDate /\ IdleParse /\ IdleDialog

NextImport ==
    \/ DialogImport
    \/ MessageImport
    \/ ClipboardImport
    \/ SwitchLayout
    \/ UpdateTask

SpecImport == InitImport /\ [][NextImport]_vars

(***************************************************************************)
(* Properties of the team schedule import                                  *)
(***************************************************************************)
ImportStep == last'.op \in {"dialogImport", "messageImport", "clipboardImport"}

\* The user's resourceUrl, notes and tags of task t are on a task of newTasks
\* with the date and the (trimmed) title of t
RestoredOnTask(t, newTasks) ==
    \E k \in 1..Len(newTasks) :
        /\ newTasks[k].dueDate = t.dueDate
        /\ Trim(newTasks[k].title) = Trim(t.title)
        /\ newTasks[k].resourceUrl = t.resourceUrl
        /\ newTasks[k].notes = t.notes
        /\ newTasks[k].tags = t.tags

\* The user's resourceUrl, notes and tags of task t are in a pinned backup
\* note of newNotes
BackedUpInNote(t, newNotes) ==
    \E k \in 1..Len(newNotes) :
        /\ newNotes[k].isPinned
        /\ newNotes[k].title.tag = "jadongbaegeop"
        /\ newNotes[k].content = BackupNoteContent(t)

\* C13: a schedule import loses no user-entered data: every team-schedule
\* task the import deletes from the store that has a resourceUrl, notes or
\* tags has them afterwards on a newly imported task with the same date and
\* title, or in a pinned backup note the import wrote.
C13_ImportKeepsUserData ==
    [][(ImportStep /\ idb[STORAGE_KEY] # Null) =>
          LET before == StoredData(idb).tasks
              after == StoredData(idb').tasks
              IsNew(x) == x.id >= last.nextId
              newTasks == SelectSeq(after, IsNew)
              newNotes == SelectSeq(getNotes(idb'), IsNew)
          IN  \A k \in 1..Len(before) :
                  (/\ before[k].id \notin IdsOf(after)
                   /\ HasUserData(before[k]))
                  => \/ RestoredOnTask(before[k], newTasks)
                     \/ BackedUpInNote(before[k], newNotes)]_vars

\* C14: after a schedule import, from the dialog, a SCHEDULE_SYNC message or
\* the clipboard shortcut, the store has at most one category named
\* '팀 일정' and every imported task (source 'team') belongs to it.
C14_OneTeamScheduleCategory ==
    (last.op \in {"dialogImport", "messageImport", "clipboardImport"}) =>
        LET categories == StoredData(idb).categories
            tasks == StoredData(idb).tasks
            team == {k \in 1..Len(categories) : categories[k].name = TEAM_SCHEDULE}
        IN  /\ Cardinality(team) <= 1
            /\ \A k \in 1..Len(tasks) :
                   tasks[k].source = "team"
                   => \E c \in team : categories[c].id = tasks[k].categoryId

(***************************************************************************)
(* TripHomonymResolverDialog                                               *)
(*                                                                         *)
(* dialog has the props open and ambiguousTrips, the state resolutions and *)
(* the calls of onResolve in order.  chosen, earlier and openings are      *)
(* history: the selections clicked since the dialog was last opened, those *)
(* of earlier openings and the number of openings.  A trip is its id and   *)
(* the knoxIds of its candidates; a candidate without knoxId has Undefined.*)
(***************************************************************************)
MaxEvents == 6

\* The ambiguous trips parseTripText reports, each with its candidates
AmbiguousTrip ==
    [t1 |-> [id |-> "t1", candidates |-> <<"k1", "k2">>],
     t2 |-> [id |-> "t2", candidates |-> <<"k3", Undefined>>]]

AmbiguousLists ==
    {<<AmbiguousTrip.t1>>, <<AmbiguousTrip.t2>>, <<AmbiguousTrip.t1, AmbiguousTrip.t2>>}

\* The effect on [open] without the reset
resolutionsKept(open, prev) == prev

\* useEffect(() => { if (open) setResolutions({}) }, [open])
resolutionsAfterOpenChange(open, prev) == IF open THEN EmptyObject ELSE prev

\* handleSelect: { ...prev, [tripId]: knoxId }
handleSelect(prev, tripId, knoxId) ==
    [id \in (DOMAIN prev) \cup {tripId} |-> IF id = tripId THEN knoxId ELSE prev[id]]

\* ambiguousTrips.every(t => resolutions[t.trip.id] !== undefined)
isAllResolved(ambiguousTrips, resolutions) ==
    \A k \in 1..Len(ambiguousTrips) :
        /\ ambiguousTrips[k].id \in DOMAIN resolutions
        /\ resolutions[ambiguousTrips[k].id] # Undefined

DialogEvent(name) == [dialog EXCEPT !.event = name, !.events = @ + 1]

dialogOthers ==
    <<classifyVars, dateVars, parseVars, ls, idb, mem, last, snap, keydown>>

\* The parent opens the dialog on the ambiguous trips of a parse; the effect
\* on [open] runs
OpenDialog ==
    /\ dialog.events < MaxEvents
    /\ ~dialog.open
    /\ \E trips \in AmbiguousLists :
         dialog' = [DialogEvent("open") EXCEPT
                        !.open = TRUE,
                        !.ambiguousTrips = trips,
                        !.resolutions = resolutionsAfterOpenChange(TRUE, dialog.resolutions),
                        !.chosen = {},
                        !.earlier = @ \cup dialog.chosen,
                        !.openings = @ + 1]
    /\ UNCHANGED dialogOthers

\* A click on the button of a candidate of a listed trip
HandleSelect ==
    /\ dialog.events < MaxEvents
    /\ dialog.open
    /\ \E k \in 1..Len(dialog.ambiguousTrips) :
         \E c \in 1..Len(dialog.ambiguousTrips[k].candidates) :
            LET tripId == dialog.ambiguousTrips[k].id
                knoxId == dialog.ambiguousTrips[k].candidates[c]
            IN  dialog' = [DialogEvent("select") EXCEPT
                               !.resolutions = handleSelect(@, tripId, knoxId),
                               !.chosen = @ \cup {<<tripId, knoxId>>}]
    /\ UNCHANGED dialogOthers

\* A click on the confirm button, which is disabled unless isAllResolved
HandleConfirm ==
    /\ dialog.events < MaxEvents
    /\ dialog.open
    /\ isAllResolved(dialog.ambiguousTrips, dialog.resolutions)
    /\ dialog' = [DialogEvent("confirm") EXCEPT
                      !.onResolve = Append(@, dialog.resolutions)]
    /\ UNCHANGED dialogOthers

\* A click on the cancel button: onOpenChange(false), and the parent closes
\* the dialog; the effect on [open] runs
Cancel ==
    /\ dialog.events < MaxEvents
    /\ dialog.open
    /\ dialog' = [DialogEvent("cancel") EXCEPT
                      !.open = FALSE,
                      !.resolutions = resolutionsAfterOpenChange(FALSE, dialog.resolutions)]
    /\ UNCHANGED dialogOthers

\* The parent renders the open dialog with other ambiguous trips
Rerender ==
    /\ dialog.events < MaxEvents
    /\ dialog.open
    /\ \E trips \in AmbiguousLists \ {dialog.ambiguousTrips} :
         dialog' = [DialogEvent("rerender") EXCEPT !.ambiguousTrips = trips]
    /\ UNCHANGED dialogOthers

InitDialog ==
    /\ dialog = [open |-> FALSE, ambiguousTrips |-> <<>>, resolutions |-> EmptyObject,
                 onResolve |-> <<>>, chosen |-> {}, earlier |-> {}, openings |-> 0,
                 event |-> "mount", events |-> 0]
    /\ IdleClassify /\ IdleDate /\ IdleParse /\ IdleStore

NextDialog ==
    \/ OpenDialog
    \/ HandleSelect
    \/ HandleConfirm
    \/ Cancel
    \/ Rerender

SpecDialog == InitDialog /\ [][NextDialog]_vars

(***************************************************************************)
(* Properties of TripHomonymResolverDialog                                 *)
(***************************************************************************)
\* The knoxIds of the candidates of a trip
KnoxIdsOf(trip) ==
    {trip.candidates[c] : c \in 1..Len(trip.candidates)} \ {Undefined}

\* C15: onResolve is called only with a map that gives, for every trip in
\* ambiguousTrips, the knoxId of one of that trip's own candidates, and every
\* entry of the map was chosen since the dialog was last opened (selections
\* of an earlier opening are not in it); cancelling does not call onResolve.
C15_ManualChoiceOnly ==
    [][/\ dialog'.onResolve # dialog.onResolve =>
            LET resolutions == dialog'.onResolve[Len(dialog'.onResolve)]
                trips == dialog.ambiguousTrips
            IN  /\ dialog'.event = "confirm"
                /\ Len(dialog'.onResolve) = Len(dialog.onResolve) + 1
                /\ \A k \in 1..Len(trips) :
                       /\ trips[k].id \in DOMAIN resolutions
                       /\ resolutions[trips[k].id] \in KnoxIdsOf(trips[k])
                /\ \A id \in DOMAIN resolutions :
                       <<id, resolutions[id]>> \in dialog.chosen
       /\ dialog'.event = "cancel" => dialog'.onResolve = dialog.onResolve]_vars

\* onResolve was called in a second opening, after a selection of the first
\* opening that the map does not have
C15_Witness ==
    /\ dialog.event = "confirm"
    /\ <<"t1", "k1">> \in dialog.earlier
    /\ dialog.onResolve = <<[t1 |-> "k2"]>>
    /\ dialog.ambiguousTrips = <<AmbiguousTrip.t1>>

(***************************************************************************)
(* Properties of deleteLabel                                               *)
(***************************************************************************)
\* A call of deleteLabel returned true
DeleteLabelStep == last'.op = "deleteLabel" /\ last'.ret = TRUE

\* C16: after deleteLabel(id) returned true, no stored note lists id among
\* its labels and no stored label has the id; every note is stored as before
\* except that id is gone from its labels (the other labels stay, in their
\* order), and the other labels are stored as before.
C16_DeleteLabelCleansNotes ==
    [][DeleteLabelStep =>
          LET id == last'.arg
              Other(labelId) == labelId # id
              Cleaned(note) == [note EXCEPT !.labels = SelectSeq(@, Other)]
              HasId(label) == label.id = id
          IN  /\ \A note \in ItemSet(getNotes(idb')) : ~ListsLabel(note, id)
              /\ \A label \in ItemSet(getLabels(idb')) : label.id # id
              /\ ItemSet(getNotes(idb')) = {Cleaned(note) : note \in ItemSet(getNotes(idb))}
              /\ ItemSet(getLabels(idb')) =
                     {label \in ItemSet(getLabels(idb)) : ~HasId(label)}]_vars

\* deleteLabel removed label 10, which notes 8 and 9 listed; note 8 keeps
\* label 11 and label 11 is still stored
C16_Witness ==
    /\ last.op = "deleteLabel"
    /\ last.arg = 10
    /\ last.ret = TRUE
    /\ \E note \in ItemSet(getNotes(idb)) : note.id = 8 /\ note.labels = <<11>>
    /\ \E note \in ItemSet(getNotes(idb)) : note.id = 9 /\ note.labels = <<>>
    /\ \E label \in ItemSet(getLabels(idb)) : label.id = 11

====
